---- MODULE Spec2Model ----
(***************************************************************************)
(* A model of easeway/cargo's orchestration engine (libcargo): one         *)
(* activation CloudEnv.Run with its node and instance goroutines, the      *)
(* image-load cache LoadImage, the macro substitution Substitute and the   *)
(* blocking cross-reference providers queryNode / queryInstance.           *)
(*                                                                         *)
(* Texts are sequences of one-character strings; offsets are Go's          *)
(* (0-based, end exclusive).                                               *)
(***************************************************************************)
EXTENDS Integers, Sequences, FiniteSets, TLC

\* ------------------------------------------------------------------ bounds
\* The longest cross-reference name drawn for the provider specification.
MaxRefLen == 4

\* the longest volume mapping of a node, in characters
MaxVolLen == 5

\* the longest text handed to Substitute, in pieces
MaxPieces == 3

\* ------------------------------------------------------------------- texts
\* text[a:b]
Slice(text, a, b) == SubSeq(text, a + 1, b)

\* text[a:]
SliceFrom(text, a) == SubSeq(text, a + 1, Len(text))

\* strings.Index(text, ch) for a one-character ch: the first offset, or -1
Index(text, ch) ==
    IF \E i \in 1..Len(text) : text[i] = ch
    THEN (CHOOSE i \in 1..Len(text) :
              text[i] = ch /\ \A k \in 1..(i - 1) : text[k] # ch) - 1
    ELSE -1

\* strings.LastIndex(text, ch) for a one-character ch: the last offset, or -1
LastIndex(text, ch) ==
    IF \E i \in 1..Len(text) : text[i] = ch
    THEN (CHOOSE i \in 1..Len(text) :
              text[i] = ch /\ \A k \in (i + 1)..Len(text) : text[k] # ch) - 1
    ELSE -1

Digits == {"0", "1", "2", "3", "4", "5", "6", "7", "8", "9"}

DigitVal(ch) ==
    CASE ch = "0" -> 0 [] ch = "1" -> 1 [] ch = "2" -> 2 [] ch = "3" -> 3
      [] ch = "4" -> 4 [] ch = "5" -> 5 [] ch = "6" -> 6 [] ch = "7" -> 7
      [] ch = "8" -> 8 [] ch = "9" -> 9

RECURSIVE DecVal(_)
DecVal(ds) ==
    IF ds = <<>> THEN 0
    ELSE DecVal(SubSeq(ds, 1, Len(ds) - 1)) * 10 + DigitVal(ds[Len(ds)])

\* strconv.Atoi: an optional sign followed by at least one decimal digit
Atoi(text) ==
    LET signed == Len(text) > 0 /\ text[1] \in {"+", "-"}
        ds     == IF signed THEN SliceFrom(text, 1) ELSE text
    IN  IF ds = <<>> \/ \E i \in 1..Len(ds) : ds[i] \notin Digits
        THEN [err |-> TRUE, val |-> 0]
        ELSE [err |-> FALSE,
              val |-> IF signed /\ text[1] = "-" THEN 0 - DecVal(ds) ELSE DecVal(ds)]

\* strings.Trim(text, " ")
RECURSIVE TrimLeft(_)
TrimLeft(text) ==
    IF text # <<>> /\ text[1] = " " THEN TrimLeft(Tail(text)) ELSE text

RECURSIVE TrimRight(_)
TrimRight(text) ==
    IF text # <<>> /\ text[Len(text)] = " "
    THEN TrimRight(SubSeq(text, 1, Len(text) - 1)) ELSE text

Trim(text) == TrimRight(TrimLeft(text))

\* -------------------------------------------------- the macro expression
\* varRegExp = %\([^()]+\) matched at offset s: the end offset (exclusive) of
\* the match, or -1
MatchAt(text, s) ==
    IF s + 2 < Len(text) /\ text[s + 1] = "%" /\ text[s + 2] = "("
    THEN LET stops == {e \in (s + 2)..(Len(text) - 1) : text[e + 1] \in {"(", ")"}}
         IN  IF stops = {} THEN -1
             ELSE LET e == CHOOSE x \in stops : \A y \in stops : x <= y
                  IN  IF text[e + 1] = ")" /\ e > s + 2 THEN e + 1 ELSE -1
    ELSE -1

\* varRegExp.FindAllStringIndex(text, -1) from offset `from` on: the
\* successive leftmost matches, each <<start, end>>
RECURSIVE FindAllFrom(_, _)
FindAllFrom(text, from) ==
    LET starts == {s \in from..(Len(text) - 1) : MatchAt(text, s) >= 0}
    IN  IF starts = {} THEN <<>>
        ELSE LET s == CHOOSE x \in starts : \A y \in starts : x <= y
             IN  <<(<<s, MatchAt(text, s)>>)>> \o FindAllFrom(text, MatchAt(text, s))

FindAllStringIndex(text) == FindAllFrom(text, 0)

\* ------------------------------------------------------------ the cluster
K_ip        == <<"i", "p">>
K_mac       == <<"m", "a", "c">>
K_instances == <<"i", "n", "s", "t", "a", "n", "c", "e", "s">>
K_env       == <<"e", "n", "v">>
K_template  == <<"t", "e", "m", "p", "l", "a", "t", "e">>
K_image     == <<"i", "m", "a", "g", "e">>

\* %(key:ref)
Macro(key, ref) == <<"%", "(">> \o key \o <<":">> \o ref \o <<")">>

\* The run-flags bitmask, as the set of the flags that are set
Run    == "Run"
Detach == "Detach"
Stop   == "Stop"
Remove == "Remove"
Prepare == "Prepare"

\* A Node of the cluster definition: its run command group is Commands when
\* HasRun (Commands["run"] exists)
NodeDef(name, image, instances, hasRun, commands) ==
    [Name |-> name, Image |-> image, Instances |-> instances,
     HasRun |-> hasRun, Commands |-> commands]

ImgI == <<"i">>
ImgJ == <<"j">>

\* two nodes of one image; a's first command waits for b's address
ClusterAB ==
    << NodeDef(<<"a">>, ImgI, 1, TRUE,
               << Macro(K_ip, <<"b", "-", "0">>) \o <<" ", "y">> >>),
       NodeDef(<<"b">>, ImgI, 1, FALSE, <<>>) >>

\* one node: a blank command, its own address, the instance count of a node
\* that does not exist, then a plain command
ClusterA ==
    << NodeDef(<<"a">>, ImgI, 1, TRUE,
               << <<" ">>,
                  Macro(K_mac, <<"a", "-", "0">>) \o <<"z", "w">>,
                  Macro(K_instances, <<"c">>) \o <<" ", "x">>,
                  <<"x">> >>) >>

\* a's image name refers to b's instance count, b's to the address of a's
\* instance; b has no instance
ClusterImg ==
    << NodeDef(<<"a">>, ImgI \o Macro(K_instances, <<"b">>), 1, FALSE, <<>>),
       NodeDef(<<"b">>, ImgJ \o Macro(K_mac, <<"a", "-", "0">>), 0, FALSE, <<>>) >>

\* one node with two instances and no commands
ClusterTwin ==
    << NodeDef(<<"a">>, ImgI, 2, FALSE, <<>>) >>

\* a's command refers to the address of b's instance; the two nodes have
\* images of their own
ClusterFail ==
    << NodeDef(<<"a">>, ImgI, 1, TRUE, << Macro(K_ip, <<"b", "-", "0">>) >>),
       NodeDef(<<"b">>, ImgJ, 1, FALSE, <<>>) >>

\* the command of a's instance refers to the address of b's instance, and
\* the command of b's instance to the hardware address of a's
ClusterMutual ==
    << NodeDef(<<"a">>, ImgI, 1, TRUE, << Macro(K_ip, <<"b", "-", "0">>) >>),
       NodeDef(<<"b">>, ImgI, 1, TRUE, << Macro(K_mac, <<"a", "-", "0">>) >>) >>

\* An activation: a cluster definition (Cluster.Nodes) and the run flags
\* (cargo.go: runCloud, startCloud)
Activation(c, f) == [cluster |-> c, flags |-> f]

Activations ==
    { Activation(ClusterAB, {Prepare, Run, Detach}),
      Activation(ClusterA, {Prepare, Run, Stop, Remove}),
      Activation(ClusterA, {Prepare, Run}),
      Activation(ClusterImg, {Prepare, Detach}),
      Activation(ClusterTwin, {Prepare, Detach}),
      Activation(ClusterFail, {Prepare, Run, Detach}),
      Activation(ClusterA, {Prepare, Run, Stop}),
      Activation(ClusterTwin, {Prepare, Detach, Remove}),
      Activation(ClusterMutual, {Prepare, Run, Detach}) }

\* -------------------------------------------------------------- the state
VARIABLES
    cluster,    \* CloudEnv.Cluster.Nodes
    flags,      \* CloudEnv.RunFlags
    pc,         \* each goroutine's position
    sub,        \* each goroutine's frame of CloudState.Substitute
    lk,         \* each goroutine's frame of queryNode / queryInstance
    li,         \* each node goroutine's frame of CloudState.LoadImage
    lock,       \* CloudState.lock: the goroutine that holds it
    waiters,    \* CloudState.cond: the goroutines blocked in Wait
    Images,     \* CloudState.Images: name -> ImageLoader
    pulls,      \* the driver's Pull invocations, per image name
    nodes,      \* CloudState.Nodes
    insts,      \* NodeState.Instances, of every node
    wgRun,      \* the wait group of CloudEnv.Run
    WaitGroup,  \* CloudState.WaitGroup
    panicked,   \* the process died of a runtime panic
    anyError,   \* what state.AnyError() returned to the caller of Run
    qname,      \* provider specification: the name asked for
    qout,       \* provider specification: what the lookup did
    dk,         \* the frame and the surroundings of one docker.Create call
    st,         \* the frame of one docker.Start call and of its caller
    fin,        \* the argument of a function looked at on its own
    fout        \* and its result

vars == <<cluster, flags, pc, sub, lk, li, lock, waiters, Images, pulls, nodes,
          insts, wgRun, WaitGroup, panicked, anyError, qname, qout, dk, st, fin, fout>>

\* the variables of the specifications that look at one call on its own
unitVars == <<qname, qout, dk, st, fin, fout>>

runVars == <<cluster, flags, pc, sub, lk, li, lock, waiters, Images, pulls, nodes,
             insts, wgRun, WaitGroup, panicked, anyError>>

\* Goroutines: the caller of Run, one per node, one per instance
Main       == [k |-> "main", n |-> 0, j |-> 0]
NoTask     == [k |-> "none", n |-> 0, j |-> 0]
NodeT(n)   == [k |-> "node", n |-> n, j |-> 0]
InstT(n, j) == [k |-> "inst", n |-> n, j |-> j]

NodeIds(c) == 1..Len(c)
InstIds(c) == {id \in NodeIds(c) \X (0..2) : id[2] < c[id[1]].Instances}
Tasks(c)   == {Main} \cup {NodeT(n) : n \in NodeIds(c)}
                     \cup {InstT(id[1], id[2]) : id \in InstIds(c)}

\* error values: nil, or an error of some kind; "Exit" carries code and command
Err(kind) == [kind |-> kind, code |-> 0, command |-> <<>>]
Nil       == Err("nil")
ExitErr(code, command) == [kind |-> "Exit", code |-> code, command |-> command]

\* localVars.UpdateVar
UpdateVar(values, name, value) ==
    [x \in (DOMAIN values) \cup {name} |-> IF x = name THEN value ELSE values[x]]

NoVars == [x \in {} |-> <<>>]

DigitOf(i) == CASE i = 0 -> "0" [] i = 1 -> "1" [] i = 2 -> "2" [] i = 3 -> "3"

\* what the engine reports for the container of instance <<n, j>>
CidOf(n, j) == <<"c", DigitOf(n), DigitOf(j)>>
IpOf(n, j)  == <<"I", DigitOf(n), DigitOf(j)>>
MacOf(n, j) == <<"M", DigitOf(n), DigitOf(j)>>

DataDir   == <<"/", "d">>
workspace == <<"/", "w">>

NoSub == [text |-> <<>>, matches |-> <<>>, k |-> 0, curpos |-> 0,
          result |-> <<>>, ret |-> "none"]
NoLk  == [kind |-> "none", n |-> 0, j |-> 0, key |-> <<>>, val |-> <<>>,
          exists |-> FALSE, locked |-> FALSE, waited |-> FALSE]
NoLi  == [name |-> <<>>, first |-> FALSE, ret |-> Err("unset")]

\* the result of a function looked at on its own: not there yet, or there
NoOut == [set |-> FALSE, val |-> <<>>]
Out(val) == [set |-> TRUE, val |-> val]

\* docker.Start and its caller: the position, the calling instance, whether a
\* wait group was handed in, the loop counter i, whether the engine has
\* reported the container as running, the error returned, whether the
\* goroutine that waits for the attached command is there, the caller's
\* ContainerId, and the docker commands issued
NoStart == [pc |-> "none", who |-> <<0, 0>>, attached |-> FALSE, i |-> 0,
            confirmed |-> FALSE, err |-> Nil, bg |-> FALSE, cid |-> <<>>,
            ops |-> <<>>]

\* docker.Create: its position, the marker file, the container the marker
\* names, the locals cid, newCid, err and cmdArgs, and the docker commands
\* issued
NoCreate == [pc |-> "none", who |-> <<0, 0>>, marker |-> [exists |-> FALSE, content |-> <<>>],
             prior |-> "gone", read |-> <<>>, wasRunning |-> FALSE, cid |-> <<>>,
             volumesFrom |-> <<>>, newCid |-> <<>>, err |-> Nil, ops |-> <<>>,
             writeBack |-> "none", cmdArgs |-> <<>>]

InitNode == [Image |-> <<>>, LocalVars |-> NoVars, DockerArgs |-> <<>>,
             Error |-> Nil, Stopped |-> FALSE, Logger |-> FALSE, wg |-> 0,
             rv |-> Nil]

\* the exit marker file of the last command: not read, unreadable, or a code
NoExit     == -2
Unreadable == -1

\* cidfile: is.cidfile holds the path of the marker file; marker: the file
\* docker wrote for the container of this instance is there
InitInst == [tornDown |-> FALSE, ContainerId |-> <<>>, LocalVars |-> NoVars, Error |-> Nil,
             Stopped |-> FALSE, Logger |-> FALSE, ci |-> 1, command |-> <<>>,
             rv |-> Nil, bg |-> FALSE, exit |-> NoExit, ops |-> <<>>,
             cidfile |-> FALSE, marker |-> FALSE]

\* The state CloudEnv.Run has built when it starts the node goroutines
InitRun(acts) ==
    /\ \E a \in acts : cluster = a.cluster /\ flags = a.flags
    /\ pc = [t \in Tasks(cluster) |-> IF t = Main THEN "m_launch" ELSE "idle"]
    /\ sub = [t \in Tasks(cluster) |-> NoSub]
    /\ lk = [t \in Tasks(cluster) |-> NoLk]
    /\ li = [n \in NodeIds(cluster) |-> NoLi]
    /\ lock = NoTask
    /\ waiters = {}
    /\ Images = [x \in {} |-> 0]
    /\ pulls = [x \in {cluster[n].Image : n \in NodeIds(cluster)} |-> 0]
    /\ nodes = [n \in NodeIds(cluster) |-> InitNode]
    /\ insts = [id \in InstIds(cluster) |-> InitInst]
    /\ wgRun = Len(cluster)
    /\ WaitGroup = 0
    /\ panicked = FALSE
    /\ anyError = FALSE

Init ==
    /\ InitRun(Activations)
    /\ qname = <<>>
    /\ qout = "none"
    /\ dk = NoCreate
    /\ st = NoStart
    /\ fin = <<>>
    /\ fout = NoOut

\* an unrecovered panic ends the process, and every goroutine with it
Crashed == [t \in DOMAIN pc |-> "crashed"]

Goto(t, label) == pc' = [pc EXCEPT ![t] = label]

\* sync.Cond.Broadcast
Notify == waiters' = {}

\* --------------------------------------------------- resolving a name
ClusterName == <<"k">>

\* the fixed entries CloudEnv.Run puts in the global scope
GlobalValues ==
    [x \in {<<"p", "r", "o", "j", "e", "c", "t">>, <<"c", "l", "u", "s", "t", "e", "r">>,
            <<"c", "o", "n", "t", "a", "i", "n", "e", "r">>, <<"o", "s">>} |->
        CASE x = <<"c", "o", "n", "t", "a", "i", "n", "e", "r">> ->
                 <<"d", "o", "c", "k", "e", "r">>
          [] x = <<"o", "s">> -> <<"l", "i", "n", "u", "x">>
          [] OTHER -> ClusterName]

\* os.Getenv: the process environment
Getenv(name) == IF name = <<"H">> THEN <<"h">> ELSE <<>>

\* A lookup's frame: the target it names, the (val, exists) it returns, and
\* whether it took the activation lock and whether it called Wait
NoTarget == [kind |-> "none", n |-> 0, j |-> 0, key |-> <<>>, val |-> <<>>,
             exists |-> FALSE, locked |-> FALSE, waited |-> FALSE]
Found(val) == [NoTarget EXCEPT !.kind = "value", !.val = val, !.exists = TRUE]

\* findNode: the index of the first node of that name, 0 for nil
findNode(c, name) ==
    IF \E i \in 1..Len(c) : c[i].Name = name
    THEN CHOOSE i \in 1..Len(c) :
             c[i].Name = name /\ \A k \in 1..(i - 1) : c[k].Name # name
    ELSE 0

\* &ns.Instances[index]: indexing outside the array panics
InstanceAt(c, n, index, key) ==
    IF index >= 0 /\ index < c[n].Instances
    THEN [NoTarget EXCEPT !.kind = "inst", !.n = n, !.j = index, !.key = key]
    ELSE [NoTarget EXCEPT !.kind = "panic"]

\* queryNode up to the target it names (cluster.go 221-225)
queryNodeTarget(c, ref, key) ==
    LET ns == findNode(c, ref)
    IN  IF ns = 0 THEN NoTarget
        ELSE [NoTarget EXCEPT !.kind = "node", !.n = ns, !.key = key]

\* queryInstance without its range test on the index
queryInstanceUnchecked(c, ref, key) ==
    LET pos == LastIndex(ref, "-")
    IN  IF pos <= 0 THEN NoTarget
        ELSE LET ns == findNode(c, Slice(ref, 0, pos))
                 index == Atoi(SliceFrom(ref, pos + 1))
             IN  IF ns = 0 THEN NoTarget
                 ELSE IF index.err THEN NoTarget
                 ELSE InstanceAt(c, ns, index.val, key)

\* queryInstance up to the target it names (cluster.go 242-256)
queryInstanceTarget(c, ref, key) ==
    LET pos == LastIndex(ref, "-")
    IN  IF pos <= 0 THEN NoTarget
        ELSE LET ns == findNode(c, Slice(ref, 0, pos))
                 index == Atoi(SliceFrom(ref, pos + 1))
             IN  IF ns = 0 THEN NoTarget
                 ELSE IF index.err \/ index.val < 0 \/ index.val >= c[ns].Instances
                      THEN NoTarget
                 ELSE InstanceAt(c, ns, index.val, key)

\* providerXref.QueryVar up to the target it names
providerXref(c, name) ==
    LET pos == Index(name, ":")
    IN  IF pos <= 0 THEN NoTarget
        ELSE LET key == Slice(name, 0, pos)
                 ref == SliceFrom(name, pos + 1)
             IN  IF key = K_instances THEN queryNodeTarget(c, ref, key)
                 ELSE IF key \in {K_ip, K_mac} THEN queryInstanceTarget(c, ref, key)
                 ELSE NoTarget

\* providerEnv.QueryVar: always found
providerEnv(name) ==
    IF Len(name) >= 4 /\ Slice(name, 0, 4) = K_env \o <<":">>
    THEN Found(Getenv(SliceFrom(name, 4)))
    ELSE Found(<<>>)

\* globalVars.QueryVar: the global scope's own values, then the provider
\* registered under the text before the first colon. The result is a value,
\* not-found ("none"), or the node or instance a cross-reference names.
globalQueryVar(c, name) ==
    IF name \in DOMAIN GlobalValues THEN Found(GlobalValues[name])
    ELSE LET pos == Index(name, ":")
         IN  IF pos <= 0 THEN NoTarget
             ELSE LET prefix == Slice(name, 0, pos)
                  IN  IF prefix = K_env THEN providerEnv(name)
                      ELSE IF prefix \in {K_instances, K_ip, K_mac}
                           THEN providerXref(c, name)
                      ELSE NoTarget

\* ------------------------------------------------- CloudState.Substitute
\* The goroutine t enters Substitute(text, ctx) and will continue at `ret`
SubstFrame(text, ret) ==
    [text |-> text, matches |-> FindAllStringIndex(text), k |-> 1, curpos |-> 0,
     result |-> <<>>, ret |-> ret]

\* One turn of Substitute's loop, once QueryVar has answered (val, exists)
Accumulate(f, val, exists) ==
    LET start == f.matches[f.k][1]
        end   == f.matches[f.k][2]
        r1 == IF start > f.curpos
              THEN f.result \o Slice(f.text, f.curpos, start) ELSE f.result
        r2 == IF exists THEN r1 \o val ELSE r1
    IN  [f EXCEPT !.result = r2, !.curpos = end + 1, !.k = f.k + 1]

\* After the loop: the rest of the text
SubstFinish(f) ==
    IF f.curpos < Len(f.text) THEN f.result \o SliceFrom(f.text, f.curpos)
    ELSE f.result

TargetVars(l) ==
    IF l.kind = "node" THEN nodes[l.n].LocalVars ELSE insts[<<l.n, l.j>>].LocalVars

TargetStopped(l) ==
    IF l.kind = "node" THEN nodes[l.n].Stopped ELSE insts[<<l.n, l.j>>].Stopped

\* ns == ctx.Node (queryNode), is == ctx.Instance (queryInstance)
IsSelf(t, l) ==
    IF l.kind = "node" THEN l.n = t.n
    ELSE t.k = "inst" /\ l.n = t.n /\ l.j = t.j

\* faulty variant: the first look answers only while the target is not stopped
AnswersAtOnceUnlessStopped(t, l) ==
    (l.key \in DOMAIN TargetVars(l) /\ ~TargetStopped(l)) \/ IsSelf(t, l)

\* faulty variant: the first look answers only when the key is there
AnswersAtOnceIfPresent(t, l) == l.key \in DOMAIN TargetVars(l)

\* The first, unlocked look at the target's scope: answered at once when the
\* key is there or the requester asks about itself (cluster.go 227, 258)
AnswersAtOnce(t, l) == l.key \in DOMAIN TargetVars(l) \/ IsSelf(t, l)

\* val, exists = LocalVars.QueryVar(key, ctx) on the target
FirstLook(l) ==
    IF l.key \in DOMAIN TargetVars(l)
    THEN [l EXCEPT !.val = TargetVars(l)[l.key], !.exists = TRUE]
    ELSE l

\* Substitute's loop head: the next reference is looked up, up to the point
\* where a cross-reference has to take the lock; past the last one, return
SubstNext(t) ==
    /\ pc[t] = "s_next"
    /\ LET f == sub[t]
       IN  IF f.k > Len(f.matches)
           THEN /\ sub' = [sub EXCEPT ![t].result = SubstFinish(f)]
                /\ Goto(t, f.ret)
                /\ UNCHANGED <<lk, panicked>>
           ELSE LET name == Slice(f.text, f.matches[f.k][1] + 2, f.matches[f.k][2] - 1)
                    r == globalQueryVar(cluster, name)
                IN  CASE r.kind = "panic" ->
                           /\ panicked' = TRUE
                           /\ pc' = Crashed
                           /\ UNCHANGED <<sub, lk>>
                      [] r.kind \in {"value", "none"} ->
                           /\ sub' = [sub EXCEPT ![t] = Accumulate(f, r.val, r.exists)]
                           /\ lk' = [lk EXCEPT ![t] = r]
                           /\ UNCHANGED <<pc, panicked>>
                      [] OTHER ->
                           IF AnswersAtOnce(t, r)
                           THEN LET a == FirstLook(r)
                                IN  /\ sub' = [sub EXCEPT ![t] = Accumulate(f, a.val, a.exists)]
                                    /\ lk' = [lk EXCEPT ![t] = a]
                                    /\ UNCHANGED <<pc, panicked>>
                           ELSE /\ lk' = [lk EXCEPT ![t] = r]
                                /\ Goto(t, "q_lock")
                                /\ UNCHANGED <<sub, panicked>>
    /\ UNCHANGED <<unitVars, anyError, cluster, flags, li, lock, waiters, Images, pulls, nodes, insts,
                   wgRun, WaitGroup>>

\* ------------------------------------- queryNode / queryInstance, blocking
\* ctx.Cloud.Lock()
QLock(t) ==
    /\ pc[t] = "q_lock"
    /\ lock = NoTask
    /\ lock' = t
    /\ lk' = [lk EXCEPT ![t].locked = TRUE]
    /\ Goto(t, "q_loop")
    /\ UNCHANGED <<unitVars, anyError, cluster, flags, sub, li, waiters, Images, pulls, nodes, insts,
                   wgRun, WaitGroup, panicked>>

\* for !ns.Stopped
QLoop(t) ==
    /\ pc[t] = "q_loop"
    /\ Goto(t, IF TargetStopped(lk[t]) THEN "q_unlock" ELSE "q_check")
    /\ UNCHANGED <<unitVars, anyError, cluster, flags, sub, lk, li, lock, waiters, Images, pulls, nodes,
                   insts, wgRun, WaitGroup, panicked>>

\* if val, exists = LocalVars.QueryVar(key, ctx); exists { break }
QCheck(t) ==
    /\ pc[t] = "q_check"
    /\ IF lk[t].key \in DOMAIN TargetVars(lk[t])
       THEN /\ lk' = [lk EXCEPT ![t].val = TargetVars(lk[t])[lk[t].key],
                                ![t].exists = TRUE]
            /\ Goto(t, "q_unlock")
       ELSE /\ Goto(t, "q_wait")
            /\ UNCHANGED lk
    /\ UNCHANGED <<unitVars, anyError, cluster, flags, sub, li, lock, waiters, Images, pulls, nodes,
                   insts, wgRun, WaitGroup, panicked>>

\* ctx.Cloud.Wait(): joins the waiters and releases the lock
QWait(t) ==
    /\ pc[t] = "q_wait"
    /\ waiters' = waiters \cup {t}
    /\ lock' = NoTask
    /\ lk' = [lk EXCEPT ![t].waited = TRUE]
    /\ Goto(t, "q_blocked")
    /\ UNCHANGED <<unitVars, anyError, cluster, flags, sub, li, Images, pulls, nodes, insts,
                   wgRun, WaitGroup, panicked>>

\* Wait returns: woken by a broadcast, the lock taken again
QWake(t) ==
    /\ pc[t] = "q_blocked"
    /\ t \notin waiters
    /\ lock = NoTask
    /\ lock' = t
    /\ Goto(t, "q_loop")
    /\ UNCHANGED <<unitVars, anyError, cluster, flags, sub, lk, li, waiters, Images, pulls, nodes, insts,
                   wgRun, WaitGroup, panicked>>

\* ctx.Cloud.Unlock(); return: Substitute goes on with (val, exists)
QUnlock(t) ==
    /\ pc[t] = "q_unlock"
    /\ lock' = NoTask
    /\ sub' = [sub EXCEPT ![t] = Accumulate(sub[t], lk[t].val, lk[t].exists)]
    /\ Goto(t, "s_next")
    /\ UNCHANGED <<unitVars, anyError, cluster, flags, lk, li, waiters, Images, pulls, nodes, insts,
                   wgRun, WaitGroup, panicked>>

\* ---------------------------------------------------- CloudState.LoadImage
NewLoader == [complete |-> 0, Error |-> Nil]

\* cs.Lock()
LILock(n) ==
    /\ pc[NodeT(n)] = "li_lock"
    /\ lock = NoTask
    /\ lock' = NodeT(n)
    /\ li' = [li EXCEPT ![n] = [NoLi EXCEPT !.name = cluster[n].Image]]
    /\ Goto(NodeT(n), "li_check")
    /\ UNCHANGED <<unitVars, anyError, cluster, flags, sub, lk, waiters, Images, pulls, nodes, insts,
                   wgRun, WaitGroup, panicked>>

\* faulty variant: every caller stores a loader of its own, found or not
LICheckNoCache(n) ==
    /\ pc[NodeT(n)] = "li_check"
    /\ Images' = UpdateVar(Images, li[n].name, NewLoader)
    /\ lock' = NoTask
    /\ li' = [li EXCEPT ![n].first = TRUE]
    /\ Goto(NodeT(n), "li_pull")
    /\ UNCHANGED <<unitVars, anyError, cluster, flags, sub, lk, waiters, pulls, nodes,
                   insts, wgRun, WaitGroup, panicked>>

\* loader, exists := cs.Images[name]; the first caller stores a new loader
\* and unlocks
LICheck(n) ==
    /\ pc[NodeT(n)] = "li_check"
    /\ IF li[n].name \in DOMAIN Images
       THEN /\ Goto(NodeT(n), "li_loop")
            /\ UNCHANGED <<Images, lock, li>>
       ELSE /\ Images' = UpdateVar(Images, li[n].name, NewLoader)
            /\ lock' = NoTask
            /\ li' = [li EXCEPT ![n].first = TRUE]
            /\ Goto(NodeT(n), "li_pull")
    /\ UNCHANGED <<unitVars, anyError, cluster, flags, sub, lk, waiters, pulls, nodes, insts,
                   wgRun, WaitGroup, panicked>>

\* faulty variant: the caller that found a loader returns without waiting for it
LILoopNoWait(n) ==
    /\ pc[NodeT(n)] = "li_loop"
    /\ lock' = NoTask
    /\ Goto(NodeT(n), "li_ret")
    /\ UNCHANGED <<unitVars, anyError, cluster, flags, sub, lk, li, waiters, Images,
                   pulls, nodes, insts, wgRun, WaitGroup, panicked>>

\* for atomic.LoadInt32(&loader.complete) == 0; past the loop, cs.Unlock()
LILoop(n) ==
    /\ pc[NodeT(n)] = "li_loop"
    /\ IF Images[li[n].name].complete = 0
       THEN /\ Goto(NodeT(n), "li_wait")
            /\ UNCHANGED lock
       ELSE /\ lock' = NoTask
            /\ Goto(NodeT(n), "li_ret")
    /\ UNCHANGED <<unitVars, anyError, cluster, flags, sub, lk, li, waiters, Images, pulls, nodes, insts,
                   wgRun, WaitGroup, panicked>>

\* cs.Wait(): joins the waiters and releases the lock
LIWait(n) ==
    /\ pc[NodeT(n)] = "li_wait"
    /\ waiters' = waiters \cup {NodeT(n)}
    /\ lock' = NoTask
    /\ Goto(NodeT(n), "li_blocked")
    /\ UNCHANGED <<unitVars, anyError, cluster, flags, sub, lk, li, Images, pulls, nodes, insts,
                   wgRun, WaitGroup, panicked>>

\* Wait returns
LIWake(n) ==
    /\ pc[NodeT(n)] = "li_blocked"
    /\ NodeT(n) \notin waiters
    /\ lock = NoTask
    /\ lock' = NodeT(n)
    /\ Goto(NodeT(n), "li_loop")
    /\ UNCHANGED <<unitVars, anyError, cluster, flags, sub, lk, li, waiters, Images, pulls, nodes, insts,
                   wgRun, WaitGroup, panicked>>

\* loader.Load(): il.Error = Docker(...).Pull(il.Name)
LIPull(n) ==
    /\ pc[NodeT(n)] = "li_pull"
    /\ \E e \in {Nil, Err("pull")} :
           Images' = [Images EXCEPT ![li[n].name].Error = e]
    /\ pulls' = [pulls EXCEPT ![li[n].name] = @ + 1]
    /\ Goto(NodeT(n), "li_store")
    /\ UNCHANGED <<unitVars, anyError, cluster, flags, sub, lk, li, lock, waiters, nodes, insts,
                   wgRun, WaitGroup, panicked>>

\* atomic.StoreInt32(&loader.complete, 1)
LIStore(n) ==
    /\ pc[NodeT(n)] = "li_store"
    /\ Images' = [Images EXCEPT ![li[n].name].complete = 1]
    /\ Goto(NodeT(n), "li_notify")
    /\ UNCHANGED <<unitVars, anyError, cluster, flags, sub, lk, li, lock, waiters, pulls, nodes, insts,
                   wgRun, WaitGroup, panicked>>

\* cs.Notify()
LINotify(n) ==
    /\ pc[NodeT(n)] = "li_notify"
    /\ Notify
    /\ Goto(NodeT(n), "li_ret")
    /\ UNCHANGED <<unitVars, anyError, cluster, flags, sub, lk, li, lock, Images, pulls, nodes, insts,
                   wgRun, WaitGroup, panicked>>

\* faulty variant: the node goes on whatever LoadImage returned
LIRetIgnored(n) ==
    /\ pc[NodeT(n)] = "li_ret"
    /\ li' = [li EXCEPT ![n].ret = Images[li[n].name].Error]
    /\ Goto(NodeT(n), "n_build")
    /\ UNCHANGED <<unitVars, anyError, cluster, flags, sub, lk, lock, waiters, Images,
                   pulls, nodes, insts, wgRun, WaitGroup, panicked>>

\* return loader.Error, and NodeState.run's test of it (cloudenv.go 605-607)
LIRet(n) ==
    /\ pc[NodeT(n)] = "li_ret"
    /\ LET e == Images[li[n].name].Error
       IN  /\ li' = [li EXCEPT ![n].ret = e]
           /\ IF e # Nil
              THEN /\ nodes' = [nodes EXCEPT ![n].rv = e]
                   /\ Goto(NodeT(n), "n_ret")
              ELSE /\ Goto(NodeT(n), "n_build")
                   /\ UNCHANGED nodes
    /\ UNCHANGED <<unitVars, anyError, cluster, flags, sub, lk, lock, waiters, Images, pulls, insts,
                   wgRun, WaitGroup, panicked>>

\* ------------------------------------------------------------ CloudEnv.Run
\* go func(ns *NodeState) {...}(&cs.Nodes[i]), for every node
RunLaunch ==
    /\ pc[Main] = "m_launch"
    /\ pc' = [t \in Tasks(cluster) |->
                 IF t = Main THEN "m_wait"
                 ELSE IF t.k = "node" THEN "n_mkdir" ELSE pc[t]]
    /\ UNCHANGED <<unitVars, anyError, cluster, flags, sub, lk, li, lock, waiters, Images, pulls, nodes,
                   insts, wgRun, WaitGroup, panicked>>

\* faulty variant: Run returns without waiting for the node goroutines
RunReturnEarly ==
    /\ pc[Main] = "m_wait"
    /\ Goto(Main, "m_done")
    /\ UNCHANGED <<unitVars, anyError, cluster, flags, sub, lk, li, lock, waiters,
                   Images, pulls, nodes, insts, wgRun, WaitGroup, panicked>>

\* wg.Wait(); return cs
RunReturn ==
    /\ pc[Main] = "m_wait"
    /\ wgRun = 0
    /\ Goto(Main, "m_done")
    /\ UNCHANGED <<unitVars, anyError, cluster, flags, sub, lk, li, lock, waiters, Images, pulls, nodes,
                   insts, wgRun, WaitGroup, panicked>>

\* ----------------------------------------------------------- NodeState.run
\* os.MkdirAll(cs.stateDir, 0777)
NodeMkdir(n) ==
    /\ pc[NodeT(n)] = "n_mkdir"
    /\ \/ /\ Goto(NodeT(n), "n_seed")
          /\ UNCHANGED nodes
       \/ /\ nodes' = [nodes EXCEPT ![n].rv = Err("mkdir")]
          /\ Goto(NodeT(n), "n_ret")
    /\ UNCHANGED <<unitVars, anyError, cluster, flags, sub, lk, li, lock, waiters, Images, pulls,
                   insts, wgRun, WaitGroup, panicked>>

\* UpdateVar("template"), UpdateVar("instances"); cs.Substitute(ns.Node.Image)
NodeSeed(n) ==
    /\ pc[NodeT(n)] = "n_seed"
    /\ nodes' = [nodes EXCEPT ![n].LocalVars =
                    UpdateVar(UpdateVar(@, K_template, cluster[n].Name),
                              K_instances, <<DigitOf(cluster[n].Instances)>>)]
    /\ sub' = [sub EXCEPT ![NodeT(n)] = SubstFrame(cluster[n].Image, "n_image")]
    /\ Goto(NodeT(n), "s_next")
    /\ UNCHANGED <<unitVars, anyError, cluster, flags, lk, li, lock, waiters, Images, pulls,
                   insts, wgRun, WaitGroup, panicked>>

\* ns.Image = (the substituted image); UpdateVar("image", ns.Image)
NodeImage(n) ==
    /\ pc[NodeT(n)] = "n_image"
    /\ nodes' = [nodes EXCEPT ![n].Image = sub[NodeT(n)].result,
                              ![n].LocalVars = UpdateVar(@, K_image, sub[NodeT(n)].result)]
    /\ sub' = [sub EXCEPT ![NodeT(n)] = NoSub]
    /\ Goto(NodeT(n), "n_notify")
    /\ UNCHANGED <<unitVars, anyError, cluster, flags, lk, li, lock, waiters, Images, pulls,
                   insts, wgRun, WaitGroup, panicked>>

\* cs.Notify(); ns.DockerArgs = {"-v", DataDir:workspace, "-w", workspace};
\* ns.Logger = ...
NodeNotify(n) ==
    /\ pc[NodeT(n)] = "n_notify"
    /\ Notify
    /\ nodes' = [nodes EXCEPT ![n].DockerArgs =
                     << <<"-", "v">>, DataDir \o <<":">> \o workspace,
                        <<"-", "w">>, workspace >>,
                              ![n].Logger = TRUE]
    /\ Goto(NodeT(n), "li_lock")
    /\ UNCHANGED <<unitVars, anyError, cluster, flags, sub, lk, li, lock, Images, pulls,
                   insts, wgRun, WaitGroup, panicked>>

\* faulty variant: the instances are launched with the image left out
NodeBuildNoImage(n) ==
    /\ pc[NodeT(n)] = "n_build"
    /\ Goto(NodeT(n), "n_launch")
    /\ UNCHANGED <<unitVars, anyError, cluster, flags, sub, lk, li, lock, waiters,
                   Images, pulls, nodes, insts, wgRun, WaitGroup, panicked>>

\* the docker properties, prepareNode, then the image and the command
\* (cloudenv.go 609-644)
NodeBuild(n) ==
    /\ pc[NodeT(n)] = "n_build"
    /\ nodes' = [nodes EXCEPT ![n].DockerArgs = Append(@, nodes[n].Image)]
    /\ Goto(NodeT(n), "n_launch")
    /\ UNCHANGED <<unitVars, anyError, cluster, flags, sub, lk, li, lock, waiters, Images, pulls,
                   insts, wgRun, WaitGroup, panicked>>

\* wg.Add(1); go func(index, is) {...}, for every instance
NodeLaunch(n) ==
    /\ pc[NodeT(n)] = "n_launch"
    /\ nodes' = [nodes EXCEPT ![n].wg = cluster[n].Instances]
    /\ pc' = [t \in Tasks(cluster) |->
                 IF t = NodeT(n) THEN "n_wgwait"
                 ELSE IF t.k = "inst" /\ t.n = n THEN "i_prep" ELSE pc[t]]
    /\ UNCHANGED <<unitVars, anyError, cluster, flags, sub, lk, li, lock, waiters, Images, pulls,
                   insts, wgRun, WaitGroup, panicked>>

\* faulty variant: the node's run returns without waiting for its instances
NodeWaitEarly(n) ==
    /\ pc[NodeT(n)] = "n_wgwait"
    /\ nodes' = [nodes EXCEPT ![n].rv = Nil]
    /\ Goto(NodeT(n), "n_ret")
    /\ UNCHANGED <<unitVars, anyError, cluster, flags, sub, lk, li, lock, waiters,
                   Images, pulls, insts, wgRun, WaitGroup, panicked>>

\* wg.Wait(); return nil
NodeWait(n) ==
    /\ pc[NodeT(n)] = "n_wgwait"
    /\ nodes[n].wg = 0
    /\ nodes' = [nodes EXCEPT ![n].rv = Nil]
    /\ Goto(NodeT(n), "n_ret")
    /\ UNCHANGED <<unitVars, anyError, cluster, flags, sub, lk, li, lock, waiters, Images, pulls,
                   insts, wgRun, WaitGroup, panicked>>

\* if ns.Error = ns.run(cs); ns.Error != nil { ns.Logger.Error(...) }: with
\* no logger set yet, the call is one on a nil interface
NodeReturn(n) ==
    /\ pc[NodeT(n)] = "n_ret"
    /\ nodes' = [nodes EXCEPT ![n].Error = nodes[n].rv]
    /\ IF nodes[n].rv # Nil /\ ~nodes[n].Logger
       THEN /\ panicked' = TRUE
            /\ pc' = Crashed
       ELSE /\ Goto(NodeT(n), "n_stopped")
            /\ UNCHANGED panicked
    /\ UNCHANGED <<unitVars, anyError, cluster, flags, sub, lk, li, lock, waiters, Images, pulls,
                   insts, wgRun, WaitGroup>>

\* ns.Stopped = true
NodeStopped(n) ==
    /\ pc[NodeT(n)] = "n_stopped"
    /\ nodes' = [nodes EXCEPT ![n].Stopped = TRUE]
    /\ Goto(NodeT(n), "n_notify2")
    /\ UNCHANGED <<unitVars, anyError, cluster, flags, sub, lk, li, lock, waiters, Images, pulls,
                   insts, wgRun, WaitGroup, panicked>>

\* cs.Notify(); wg.Done()
NodeDone(n) ==
    /\ pc[NodeT(n)] = "n_notify2"
    /\ Notify
    /\ wgRun' = wgRun - 1
    /\ Goto(NodeT(n), "done")
    /\ UNCHANGED <<unitVars, anyError, cluster, flags, sub, lk, li, lock, Images, pulls, nodes,
                   insts, WaitGroup, panicked>>

\* ------------------------------------------------------- InstanceState.run
Op(op, arg) == <<op, arg>>

\* the exit codes a command may leave in its marker file
ExitCodes == {0, 1, 2}

\* faulty variant: removing the container also empties the instance's scope
removeInstForgets(is, removed) ==
    IF is.ContainerId # <<>>
    THEN [is EXCEPT !.ops = Append(@, Op("rmforce", is.ContainerId)),
                    !.marker = IF is.cidfile /\ removed THEN FALSE ELSE @,
                    !.cidfile = IF removed THEN FALSE ELSE @,
                    !.ContainerId = <<>>,
                    !.LocalVars = NoVars]
    ELSE is

\* is.remove(): force-remove the container, delete the marker file (removed:
\* os.Remove gave no error; only then is.cidfile is cleared) and clear
\* ContainerId
removeInst(is, removed) ==
    IF is.ContainerId # <<>>
    THEN [is EXCEPT !.ops = Append(@, Op("rmforce", is.ContainerId)),
                    !.marker = IF is.cidfile /\ removed THEN FALSE ELSE @,
                    !.cidfile = IF removed THEN FALSE ELSE @,
                    !.ContainerId = <<>>]
    ELSE is

\* is.stop()
stopInst(is) ==
    IF is.ContainerId # <<>>
    THEN [is EXCEPT !.ops = Append(@, Op("stop", is.ContainerId))]
    ELSE is

\* is.Logger = ...; is.cidfile = ...; with the Run flag, MkdirAll(runDir) and
\* the wrapper script
InstPrep(n, j) ==
    /\ pc[InstT(n, j)] = "i_prep"
    /\ \/ /\ insts' = [insts EXCEPT ![<<n, j>>].Logger = TRUE,
                                    ![<<n, j>>].cidfile = TRUE]
          /\ Goto(InstT(n, j), "i_create")
       \/ /\ Run \in flags
          /\ insts' = [insts EXCEPT ![<<n, j>>].Logger = TRUE,
                                    ![<<n, j>>].cidfile = TRUE,
                                    ![<<n, j>>].rv = Err("fs")]
          /\ Goto(InstT(n, j), "i_ret")
    /\ UNCHANGED <<unitVars, anyError, cluster, flags, sub, lk, li, lock, waiters, Images, pulls, nodes,
                   wgRun, WaitGroup, panicked>>

\* is.ContainerId, err = is.docker().Create(is.cidfile, ns.DockerArgs): docker
\* writes the marker file of the container it has created
InstCreate(n, j) ==
    /\ pc[InstT(n, j)] = "i_create"
    /\ \/ /\ insts' = [insts EXCEPT ![<<n, j>>].ContainerId = CidOf(n, j),
                                    ![<<n, j>>].marker = TRUE,
                                    ![<<n, j>>].ops = Append(@, Op("create", CidOf(n, j)))]
          /\ Goto(InstT(n, j), "i_start")
       \/ /\ insts' = [insts EXCEPT ![<<n, j>>].ContainerId = <<>>,
                                    ![<<n, j>>].rv = Err("create")]
          /\ Goto(InstT(n, j), "i_ret")
    /\ UNCHANGED <<unitVars, anyError, cluster, flags, sub, lk, li, lock, waiters, Images, pulls, nodes,
                   wgRun, WaitGroup, panicked>>

\* is.docker().Start: detached, or attached with a goroutine that waits for
\* the container and a poll for its running state
InstStart(n, j) ==
    /\ pc[InstT(n, j)] = "i_start"
    /\ LET is == [insts[<<n, j>>] EXCEPT
                      !.ops = Append(@, Op("start", insts[<<n, j>>].ContainerId))]
       IN  \/ /\ Detach \in flags
              /\ \/ /\ insts' = [insts EXCEPT ![<<n, j>>] = is]
                    /\ Goto(InstT(n, j), "i_ip")
                 \/ /\ insts' = [insts EXCEPT ![<<n, j>>] = [is EXCEPT !.rv = Err("start")]]
                    /\ Goto(InstT(n, j), "i_rmfail")
              /\ UNCHANGED WaitGroup
           \/ /\ Detach \notin flags
              /\ \/ /\ insts' = [insts EXCEPT ![<<n, j>>] = [is EXCEPT !.rv = Err("start")]]
                    /\ Goto(InstT(n, j), "i_rmfail")
                    /\ UNCHANGED WaitGroup
                 \/ /\ insts' = [insts EXCEPT ![<<n, j>>] = [is EXCEPT !.bg = TRUE]]
                    /\ WaitGroup' = WaitGroup + 1
                    /\ Goto(InstT(n, j), "i_ip")
                 \/ /\ insts' = [insts EXCEPT ![<<n, j>>] =
                                    [is EXCEPT !.bg = TRUE, !.rv = Err("Start timeout")]]
                    /\ WaitGroup' = WaitGroup + 1
                    /\ Goto(InstT(n, j), "i_rmfail")
    /\ UNCHANGED <<unitVars, anyError, cluster, flags, sub, lk, li, lock, waiters, Images, pulls, nodes,
                   wgRun, panicked>>

\* go func() { cmd.Wait(); wg.Done() }(): the attached container has exited
ContainerExit(n, j) ==
    /\ ~panicked
    /\ insts[<<n, j>>].bg
    /\ insts' = [insts EXCEPT ![<<n, j>>].bg = FALSE]
    /\ WaitGroup' = WaitGroup - 1
    /\ UNCHANGED <<unitVars, anyError, cluster, flags, pc, sub, lk, li, lock, waiters, Images, pulls, nodes,
                   wgRun, panicked>>

\* faulty variant: the start error is returned with the container left behind
InstStartFailedKeeps(n, j) ==
    /\ pc[InstT(n, j)] = "i_rmfail"
    /\ Goto(InstT(n, j), "i_ret")
    /\ UNCHANGED <<unitVars, anyError, cluster, flags, sub, lk, li, lock, waiters,
                   Images, pulls, nodes, insts, wgRun, WaitGroup, panicked>>

\* if err != nil { is.remove(); return err }
InstStartFailed(n, j) ==
    /\ pc[InstT(n, j)] = "i_rmfail"
    /\ \E removed \in BOOLEAN : insts' = [insts EXCEPT ![<<n, j>>] = removeInst(@, removed)]
    /\ Goto(InstT(n, j), "i_ret")
    /\ UNCHANGED <<unitVars, anyError, cluster, flags, sub, lk, li, lock, waiters, Images, pulls, nodes,
                   wgRun, WaitGroup, panicked>>

\* Inspect(IPAddress): published as "ip" when the inspect succeeds
InstIp(n, j) ==
    /\ pc[InstT(n, j)] = "i_ip"
    /\ \/ insts' = [insts EXCEPT ![<<n, j>>].LocalVars = UpdateVar(@, K_ip, IpOf(n, j))]
       \/ UNCHANGED insts
    /\ Goto(InstT(n, j), "i_mac")
    /\ UNCHANGED <<unitVars, anyError, cluster, flags, sub, lk, li, lock, waiters, Images, pulls, nodes,
                   wgRun, WaitGroup, panicked>>

\* Inspect(MacAddress): published as "mac" when the inspect succeeds
InstMac(n, j) ==
    /\ pc[InstT(n, j)] = "i_mac"
    /\ \/ insts' = [insts EXCEPT ![<<n, j>>].LocalVars = UpdateVar(@, K_mac, MacOf(n, j))]
       \/ UNCHANGED insts
    /\ Goto(InstT(n, j), "i_notify")
    /\ UNCHANGED <<unitVars, anyError, cluster, flags, sub, lk, li, lock, waiters, Images, pulls, nodes,
                   wgRun, WaitGroup, panicked>>

\* faulty variant: the instance goes on to its commands without the broadcast
InstNotifyNoBroadcast(n, j) ==
    /\ pc[InstT(n, j)] = "i_notify"
    /\ Goto(InstT(n, j), IF Run \in flags THEN "i_cmd" ELSE "i_stop")
    /\ UNCHANGED <<unitVars, anyError, cluster, flags, sub, lk, li, lock, waiters,
                   Images, pulls, nodes, insts, wgRun, WaitGroup, panicked>>

\* is.NodeState.State.Notify(); if runCmds { runCommands("run", ...) }
InstNotify(n, j) ==
    /\ pc[InstT(n, j)] = "i_notify"
    /\ Notify
    /\ Goto(InstT(n, j), IF Run \in flags THEN "i_cmd" ELSE "i_stop")
    /\ UNCHANGED <<unitVars, anyError, cluster, flags, sub, lk, li, lock, Images, pulls, nodes, insts,
                   wgRun, WaitGroup, panicked>>

\* runCommands: no "run" group, or past its last command: return nil (and
\* capture() returns nil); else Substitute the next command
InstCmd(n, j) ==
    /\ pc[InstT(n, j)] = "i_cmd"
    /\ IF ~cluster[n].HasRun \/ insts[<<n, j>>].ci > Len(cluster[n].Commands)
       THEN /\ Goto(InstT(n, j), "i_stop")
            /\ UNCHANGED sub
       ELSE /\ sub' = [sub EXCEPT ![InstT(n, j)] =
                          SubstFrame(cluster[n].Commands[insts[<<n, j>>].ci], "i_exec")]
            /\ Goto(InstT(n, j), "s_next")
    /\ UNCHANGED <<unitVars, anyError, cluster, flags, lk, li, lock, waiters, Images, pulls, nodes, insts,
                   wgRun, WaitGroup, panicked>>

\* command = Trim(substituted); blank: continue; else the script is written
\* and Exec'd
InstExec(n, j) ==
    /\ pc[InstT(n, j)] = "i_exec"
    /\ LET command == Trim(sub[InstT(n, j)].result)
           is == insts[<<n, j>>]
       IN  IF command = <<>>
           THEN /\ insts' = [insts EXCEPT ![<<n, j>>].ci = @ + 1]
                /\ Goto(InstT(n, j), "i_cmd")
           ELSE \/ /\ insts' = [insts EXCEPT ![<<n, j>>].rv = Err("fs"),
                                             ![<<n, j>>].command = command]
                   /\ Goto(InstT(n, j), "i_stop")
                \/ /\ insts' = [insts EXCEPT ![<<n, j>>].rv = Err("exec"),
                                             ![<<n, j>>].command = command,
                                             ![<<n, j>>].ops = Append(@, Op("exec", command))]
                   /\ Goto(InstT(n, j), "i_stop")
                \/ /\ insts' = [insts EXCEPT ![<<n, j>>].command = command,
                                             ![<<n, j>>].exit = NoExit,
                                             ![<<n, j>>].ops = Append(@, Op("exec", command))]
                   /\ Goto(InstT(n, j), "i_exit")
    /\ sub' = [sub EXCEPT ![InstT(n, j)] = NoSub]
    /\ UNCHANGED <<unitVars, anyError, cluster, flags, lk, li, lock, waiters, Images, pulls, nodes,
                   wgRun, WaitGroup, panicked>>

\* faulty variant: the exit code is read and not tested
InstExitIgnored(n, j) ==
    /\ pc[InstT(n, j)] = "i_exit"
    /\ \E exitCode \in ExitCodes :
           insts' = [insts EXCEPT ![<<n, j>>].ci = @ + 1,
                                  ![<<n, j>>].exit = exitCode]
    /\ Goto(InstT(n, j), "i_cmd")
    /\ UNCHANGED <<unitVars, anyError, cluster, flags, sub, lk, li, lock, waiters,
                   Images, pulls, nodes, wgRun, WaitGroup, panicked>>

\* the exit marker file: unreadable, not a number, or the exit code
InstExit(n, j) ==
    /\ pc[InstT(n, j)] = "i_exit"
    /\ \/ /\ \E e \in {Err("read"), Err("atoi")} :
                 insts' = [insts EXCEPT ![<<n, j>>].rv = e,
                                        ![<<n, j>>].exit = Unreadable]
          /\ Goto(InstT(n, j), "i_stop")
       \/ \E exitCode \in ExitCodes :
             IF exitCode # 0
             THEN /\ insts' = [insts EXCEPT ![<<n, j>>].rv =
                                   ExitErr(exitCode, insts[<<n, j>>].command),
                                            ![<<n, j>>].exit = exitCode]
                  /\ Goto(InstT(n, j), "i_stop")
             ELSE /\ insts' = [insts EXCEPT ![<<n, j>>].ci = @ + 1,
                                            ![<<n, j>>].exit = exitCode]
                  /\ Goto(InstT(n, j), "i_cmd")
    /\ UNCHANGED <<unitVars, anyError, cluster, flags, sub, lk, li, lock, waiters, Images, pulls, nodes,
                   wgRun, WaitGroup, panicked>>

\* faulty variant: the Remove flag is looked at on its own
stopAndRemoveAnyway(is, f, removed) ==
    LET stopped == IF Stop \in f THEN stopInst(is) ELSE is
    IN  IF Remove \in f THEN removeInst(stopped, removed) ELSE stopped

\* if Stop is set { is.stop(); if Remove is set { is.remove() } }; return err
stopAndRemove(is, f, removed) ==
    IF Stop \in f
    THEN IF Remove \in f THEN removeInst(stopInst(is), removed) ELSE stopInst(is)
    ELSE is

InstStop(n, j) ==
    /\ pc[InstT(n, j)] = "i_stop"
    /\ \E removed \in BOOLEAN :
           insts' = [insts EXCEPT ![<<n, j>>] = stopAndRemove(@, flags, removed)]
    /\ Goto(InstT(n, j), "i_ret")
    /\ UNCHANGED <<unitVars, anyError, cluster, flags, sub, lk, li, lock, waiters, Images, pulls, nodes,
                   wgRun, WaitGroup, panicked>>

\* faulty variant: an instance's error is handed up to its node
InstReturnPropagates(n, j) ==
    /\ pc[InstT(n, j)] = "i_ret"
    /\ insts' = [insts EXCEPT ![<<n, j>>].Error = insts[<<n, j>>].rv]
    /\ nodes' = [nodes EXCEPT ![n].Error = insts[<<n, j>>].rv]
    /\ Goto(InstT(n, j), "i_stopped")
    /\ UNCHANGED <<unitVars, anyError, cluster, flags, sub, lk, li, lock, waiters,
                   Images, pulls, wgRun, WaitGroup, panicked>>

\* is.Error = is.run(ns, index)
InstReturn(n, j) ==
    /\ pc[InstT(n, j)] = "i_ret"
    /\ insts' = [insts EXCEPT ![<<n, j>>].Error = insts[<<n, j>>].rv]
    /\ Goto(InstT(n, j), "i_stopped")
    /\ UNCHANGED <<unitVars, anyError, cluster, flags, sub, lk, li, lock, waiters, Images, pulls, nodes,
                   wgRun, WaitGroup, panicked>>

\* faulty variant: the instance goroutine ends without setting the flag
InstStoppedSkipped(n, j) ==
    /\ pc[InstT(n, j)] = "i_stopped"
    /\ Goto(InstT(n, j), "i_notify2")
    /\ UNCHANGED <<unitVars, anyError, cluster, flags, sub, lk, li, lock, waiters,
                   Images, pulls, nodes, insts, wgRun, WaitGroup, panicked>>

\* is.Stopped = true
InstStopped(n, j) ==
    /\ pc[InstT(n, j)] = "i_stopped"
    /\ insts' = [insts EXCEPT ![<<n, j>>].Stopped = TRUE]
    /\ Goto(InstT(n, j), "i_notify2")
    /\ UNCHANGED <<unitVars, anyError, cluster, flags, sub, lk, li, lock, waiters, Images, pulls, nodes,
                   wgRun, WaitGroup, panicked>>

\* cs.Notify(); wg.Done()
InstDone(n, j) ==
    /\ pc[InstT(n, j)] = "i_notify2"
    /\ Notify
    /\ nodes' = [nodes EXCEPT ![n].wg = @ - 1]
    /\ Goto(InstT(n, j), "done")
    /\ UNCHANGED <<unitVars, anyError, cluster, flags, sub, lk, li, lock, Images, pulls, insts,
                   wgRun, WaitGroup, panicked>>

\* ------------------------------------------------------ CloudState.AnyError
\* NodeState.AnyError: the loop over ns.Instances from index i on
RECURSIVE nodeAnyErrorFrom(_, _, _, _)
nodeAnyErrorFrom(c, is, n, i) ==
    IF i >= c[n].Instances THEN FALSE
    ELSE IF is[<<n, i>>].Error # Nil THEN TRUE
    ELSE nodeAnyErrorFrom(c, is, n, i + 1)

\* CloudState.AnyError: the loop over cs.Nodes from index i on
RECURSIVE cloudAnyErrorFrom(_, _, _, _)
cloudAnyErrorFrom(c, ns, is, i) ==
    IF i > Len(c) THEN FALSE
    ELSE IF ns[i].Error # Nil \/ nodeAnyErrorFrom(c, is, i, 0) THEN TRUE
    ELSE cloudAnyErrorFrom(c, ns, is, i + 1)

\* faulty variant: only the nodes' own errors are looked at
AnyErrorNodesOnly(c, ns, is) == \E i \in 1..Len(c) : ns[i].Error # Nil

AnyError(c, ns, is) == cloudAnyErrorFrom(c, ns, is, 1)

\* cargo.go: state := env.Run(); if state.AnyError() {...}
CallAnyError ==
    /\ pc[Main] = "m_done"
    /\ anyError' = AnyError(cluster, nodes, insts)
    /\ Goto(Main, "m_anyerr")
    /\ UNCHANGED <<unitVars, cluster, flags, sub, lk, li, lock, waiters, Images, pulls, nodes,
                   insts, wgRun, WaitGroup, panicked>>

\* --------------------------------------------------- CloudState.StopAndWait
\* runCloud calls StopAndWait when AnyError answered true, or when the run is
\* not detached (cargo.go 178-187)
CallsStopAndWait == Run \in flags /\ (anyError \/ Detach \notin flags)

\* faulty variant: a stop for every instance, with a container or without
StopAndWaitStopAll ==
    /\ pc[Main] = "m_anyerr"
    /\ CallsStopAndWait
    /\ insts' = [id \in DOMAIN insts |->
                    [insts[id] EXCEPT !.tornDown = TRUE,
                                      !.ops = Append(@, Op("stop", insts[id].ContainerId))]]
    /\ Goto(Main, "m_teardown")
    /\ UNCHANGED <<unitVars, anyError, cluster, flags, sub, lk, li, lock, waiters, Images,
                   pulls, nodes, wgRun, WaitGroup, panicked>>

\* the loops over cs.Nodes and ns.Instances: is.stop() on every instance
StopAndWaitStop ==
    /\ pc[Main] = "m_anyerr"
    /\ CallsStopAndWait
    /\ insts' = [id \in DOMAIN insts |->
                    IF insts[id].ContainerId # <<>>
                    THEN [stopInst(insts[id]) EXCEPT !.tornDown = TRUE]
                    ELSE insts[id]]
    /\ Goto(Main, "m_teardown")
    /\ UNCHANGED <<unitVars, anyError, cluster, flags, sub, lk, li, lock, waiters, Images,
                   pulls, nodes, wgRun, WaitGroup, panicked>>

\* cs.WaitGroup.Wait(), and the return
StopAndWaitReturn ==
    /\ pc[Main] = "m_teardown"
    /\ WaitGroup = 0
    /\ Goto(Main, "m_stopped")
    /\ UNCHANGED <<unitVars, anyError, cluster, flags, sub, lk, li, lock, waiters, Images,
                   pulls, nodes, insts, wgRun, WaitGroup, panicked>>

\* ------------------------------------------------------- the specification
Next ==
    \/ RunLaunch
    \/ RunReturn
    \/ CallAnyError
    \/ StopAndWaitStop
    \/ StopAndWaitReturn
    \/ \E t \in Tasks(cluster) \ {Main} : SubstNext(t)
    \/ \E t \in Tasks(cluster) \ {Main} : QLock(t)
    \/ \E t \in Tasks(cluster) \ {Main} : QLoop(t)
    \/ \E t \in Tasks(cluster) \ {Main} : QCheck(t)
    \/ \E t \in Tasks(cluster) \ {Main} : QWait(t)
    \/ \E t \in Tasks(cluster) \ {Main} : QWake(t)
    \/ \E t \in Tasks(cluster) \ {Main} : QUnlock(t)
    \/ \E n \in NodeIds(cluster) : NodeMkdir(n)
    \/ \E n \in NodeIds(cluster) : NodeSeed(n)
    \/ \E n \in NodeIds(cluster) : NodeImage(n)
    \/ \E n \in NodeIds(cluster) : NodeNotify(n)
    \/ \E n \in NodeIds(cluster) : LILock(n)
    \/ \E n \in NodeIds(cluster) : LICheck(n)
    \/ \E n \in NodeIds(cluster) : LILoop(n)
    \/ \E n \in NodeIds(cluster) : LIWait(n)
    \/ \E n \in NodeIds(cluster) : LIWake(n)
    \/ \E n \in NodeIds(cluster) : LIPull(n)
    \/ \E n \in NodeIds(cluster) : LIStore(n)
    \/ \E n \in NodeIds(cluster) : LINotify(n)
    \/ \E n \in NodeIds(cluster) : LIRet(n)
    \/ \E n \in NodeIds(cluster) : NodeBuild(n)
    \/ \E n \in NodeIds(cluster) : NodeLaunch(n)
    \/ \E n \in NodeIds(cluster) : NodeWait(n)
    \/ \E n \in NodeIds(cluster) : NodeReturn(n)
    \/ \E n \in NodeIds(cluster) : NodeStopped(n)
    \/ \E n \in NodeIds(cluster) : NodeDone(n)
    \/ \E id \in InstIds(cluster) : InstPrep(id[1], id[2])
    \/ \E id \in InstIds(cluster) : InstCreate(id[1], id[2])
    \/ \E id \in InstIds(cluster) : InstStart(id[1], id[2])
    \/ \E id \in InstIds(cluster) : ContainerExit(id[1], id[2])
    \/ \E id \in InstIds(cluster) : InstStartFailed(id[1], id[2])
    \/ \E id \in InstIds(cluster) : InstIp(id[1], id[2])
    \/ \E id \in InstIds(cluster) : InstMac(id[1], id[2])
    \/ \E id \in InstIds(cluster) : InstNotify(id[1], id[2])
    \/ \E id \in InstIds(cluster) : InstCmd(id[1], id[2])
    \/ \E id \in InstIds(cluster) : InstExec(id[1], id[2])
    \/ \E id \in InstIds(cluster) : InstExit(id[1], id[2])
    \/ \E id \in InstIds(cluster) : InstStop(id[1], id[2])
    \/ \E id \in InstIds(cluster) : InstReturn(id[1], id[2])
    \/ \E id \in InstIds(cluster) : InstStopped(id[1], id[2])
    \/ \E id \in InstIds(cluster) : InstDone(id[1], id[2])

Spec == Init /\ [][Next]_vars

\* ------------------------------------ the cross-reference provider, alone
\* the cluster the names are resolved in: a has two instances, b one
XrefCluster ==
    << NodeDef(<<"a">>, ImgI, 2, FALSE, <<>>),
       NodeDef(<<"b">>, ImgI, 1, FALSE, <<>>) >>

\* the goroutine that asks: a's instance 0 (ctx.Node, ctx.Instance)
Requester == InstT(1, 0)

RefAlphabet == {"a", "b", "-", "0", "1", "+", "x"}

XrefNames ==
    {key \o <<":">> \o ref :
        key \in {K_ip, K_mac, K_instances},
        ref \in UNION {[1..len -> RefAlphabet] : len \in 0..MaxRefLen}}

InitXref ==
    /\ InitRun({Activation(XrefCluster, {Prepare, Run})})
    /\ qname \in XrefNames
    /\ qout = "none"
    /\ dk = NoCreate
    /\ st = NoStart
    /\ fin = <<>>
    /\ fout = NoOut

\* providerXref.QueryVar(qname, ctx, repo) up to its return or its first Wait:
\* it returns found or not-found at once, panics, or goes on to block
XrefQueryVar ==
    /\ qout = "none"
    /\ LET r == providerXref(cluster, qname)
       IN  qout' = CASE r.kind = "none" -> "notfound"
                     [] r.kind = "panic" -> "panic"
                     [] OTHER -> IF AnswersAtOnce(Requester, r)
                                 THEN IF FirstLook(r).exists THEN "found" ELSE "notfound"
                                 ELSE "blocks"
    /\ UNCHANGED <<qname, dk, fin, fout, st, runVars>>

NextXref == XrefQueryVar

SpecXref == InitXref /\ [][NextXref]_vars

\* ------------------------------------------------ CloudState.Substitute, alone
\* Substitute(text, ctx) for a text whose references are answered at once:
\* the loop over the matches, then the rest of the text
RECURSIVE SubstituteFrom(_, _)
SubstituteFrom(c, f) ==
    IF f.k > Len(f.matches) THEN SubstFinish(f)
    ELSE LET name == Slice(f.text, f.matches[f.k][1] + 2, f.matches[f.k][2] - 1)
             r == globalQueryVar(c, name)
         IN  SubstituteFrom(c, Accumulate(f, r.val, r.exists))

Substitute(c, text) == SubstituteFrom(c, SubstFrame(text, "none"))

\* what the texts are made of: plain characters, a reference that resolves,
\* one that does not, and the delimiters on their own
Pieces ==
    { <<"x">>, <<"y">>, <<" ">>, <<"%">>, <<"(">>, <<")">>,
      <<"%", "(", "o", "s", ")">>, <<"%", "(", "u", ")">> }

RECURSIVE Concat(_)
Concat(ps) == IF ps = <<>> THEN <<>> ELSE Head(ps) \o Concat(Tail(ps))

Texts == {Concat(ps) : ps \in UNION {[1..n -> Pieces] : n \in 0..MaxPieces}}

InitSubst ==
    /\ InitRun({Activation(XrefCluster, {Prepare, Run})})
    /\ qname = <<>>
    /\ qout = "none"
    /\ dk = NoCreate
    /\ st = NoStart
    /\ fin \in Texts
    /\ fout = NoOut

SubstituteCall ==
    /\ ~fout.set
    /\ fout' = Out(Substitute(cluster, fin))
    /\ UNCHANGED <<qname, qout, dk, fin, st, runVars>>

NextSubst == SubstituteCall

SpecSubst == InitSubst /\ [][NextSubst]_vars

\* ------------------------------------------- the volume mappings of a node
\* strings.Split(text, "/"): the elements between the slashes
RECURSIVE Split(_)
Split(text) ==
    IF Index(text, "/") < 0 THEN <<text>>
    ELSE <<Slice(text, 0, Index(text, "/"))>> \o Split(SliceFrom(text, Index(text, "/") + 1))

\* path.Clean's walk over the elements: empty and "." elements go, ".."
\* takes the element before it away, or goes itself at the root, or stays
RECURSIVE CleanWalk(_, _, _)
CleanWalk(elems, kept, rooted) ==
    IF elems = <<>> THEN kept
    ELSE LET e == Head(elems)
         IN  IF e = <<>> \/ e = <<".">> THEN CleanWalk(Tail(elems), kept, rooted)
             ELSE IF e = <<".", ".">>
             THEN IF kept # <<>> /\ kept[Len(kept)] # <<".", ".">>
                  THEN CleanWalk(Tail(elems), SubSeq(kept, 1, Len(kept) - 1), rooted)
                  ELSE IF rooted THEN CleanWalk(Tail(elems), kept, rooted)
                  ELSE CleanWalk(Tail(elems), Append(kept, e), rooted)
             ELSE CleanWalk(Tail(elems), Append(kept, e), rooted)

RECURSIVE JoinElems(_)
JoinElems(elems) ==
    IF elems = <<>> THEN <<>>
    ELSE IF Len(elems) = 1 THEN elems[1]
    ELSE elems[1] \o <<"/">> \o JoinElems(Tail(elems))

\* path.IsAbs
IsAbs(p) == p # <<>> /\ p[1] = "/"

\* path.Clean
Clean(p) ==
    LET out == (IF IsAbs(p) THEN <<"/">> ELSE <<>>)
                   \o JoinElems(CleanWalk(Split(p), <<>>, IsAbs(p)))
    IN  IF out = <<>> THEN <<".">> ELSE out

\* path.Join of two elements: the non-empty ones, joined by "/" and cleaned
Join(a, b) ==
    IF a = <<>> /\ b = <<>> THEN <<>>
    ELSE IF a = <<>> THEN Clean(b)
    ELSE IF b = <<>> THEN Clean(a)
    ELSE Clean(a \o <<"/">> \o b)

\* faulty variant: the source is left as it is declared
VolumeArgAsDeclared(c, vol) == Substitute(c, vol)

\* the argument after "-v" for one declared volume (cloudenv.go 621-629)
VolumeArg(c, vol) ==
    LET volMap == Substitute(c, vol)
        pos == Index(volMap, ":")
    IN  IF pos > 0
        THEN LET src == Slice(volMap, 0, pos)
                 dst == SliceFrom(volMap, pos + 1)
             IN  (IF ~IsAbs(src) THEN Clean(Join(DataDir, src)) ELSE src)
                     \o <<":">> \o dst
        ELSE volMap

VolAlphabet == {"a", ".", "/", ":"}

Volumes == UNION {[1..n -> VolAlphabet] : n \in 0..MaxVolLen}

InitVolume ==
    /\ InitRun({Activation(XrefCluster, {Prepare, Run})})
    /\ qname = <<>>
    /\ qout = "none"
    /\ dk = NoCreate
    /\ st = NoStart
    /\ fin \in Volumes
    /\ fout = NoOut

VolumeCall ==
    /\ ~fout.set
    /\ fout' = Out(VolumeArg(cluster, fin))
    /\ UNCHANGED <<qname, qout, dk, fin, st, runVars>>

NextVolume == VolumeCall

SpecVolume == InitVolume /\ [][NextVolume]_vars

\* ---------------------------------------------------- docker.Create, alone
PriorCid == <<"P">>

NoFile == [exists |-> FALSE, content |-> <<>>]
File(content) == [exists |-> TRUE, content |-> content]

\* ns.DockerArgs as NodeState.run leaves it for a node without docker
\* properties (cloudenv.go 602, 641)
NodeArgs(c, n) ==
    << <<"-", "v">>, DataDir \o <<":">> \o workspace, <<"-", "w">>, workspace,
       c[n].Image >>

CreateWord == <<"c", "r", "e", "a", "t", "e">>

\* is.cidfile of instance id
CidFileOf(id) == <<"f", DigitOf(id[1]), DigitOf(id[2])>>

\* "--cidfile=" + cidfile
CidFileOpt(cidfile) ==
    <<"-", "-", "c", "i", "d", "f", "i", "l", "e", "=">> \o cidfile

\* "--volumes-from=" + cid
VolumesFromOpt(cid) ==
    <<"-", "-", "v", "o", "l", "u", "m", "e", "s", "-", "f", "r", "o", "m", "=">> \o cid

\* cmdArgs after docker.go 276-279: "create", the cidfile option, then args
CreateCmdArgs(cidfile, args) == <<CreateWord, CidFileOpt(cidfile)>> \o args

\* the instance that calls Create (is.cidfile), and the surroundings the call
\* may meet: no marker file, an empty one, or
\* one that names a container, which runs, has stopped or is gone
InitCreate ==
    /\ InitRun({Activation(XrefCluster, {Prepare, Run})})
    /\ qname = <<>>
    /\ qout = "none"
    /\ fin = <<>>
    /\ fout = NoOut
    /\ st = NoStart
    /\ \E id \in InstIds(cluster),
          m \in {NoFile, File(<<>>), File(PriorCid)},
          c \in {"running", "stopped", "gone"} :
           dk = [NoCreate EXCEPT !.pc = "read", !.who = id, !.marker = m, !.prior = c,
                                 !.cmdArgs = CreateCmdArgs(CidFileOf(id),
                                                           NodeArgs(cluster, id[1]))]

\* cid := ""; if cidBytes, err := ReadFile(cidfile); err == nil { cid = ... }
CreateRead ==
    /\ dk.pc = "read"
    /\ \/ /\ dk.marker.exists
          /\ dk' = [dk EXCEPT !.cid = dk.marker.content, !.read = dk.marker.content,
                              !.pc = "inspect"]
       \/ dk' = [dk EXCEPT !.pc = "inspect"]
    /\ UNCHANGED <<qname, qout, fin, fout, st, runVars>>

\* if cid != "": isRunning(cid); running: Stop(cid); no error: the
\* volumes-from option is appended to cmdArgs;
\* error: cid = ""
CreateInspect ==
    /\ dk.pc = "inspect"
    /\ IF dk.cid = <<>>
       THEN dk' = [dk EXCEPT !.pc = "remove"]
       ELSE \/ dk' = [dk EXCEPT !.cid = <<>>, !.pc = "remove"]
            \/ /\ dk.prior = "running"
               /\ \E after \in {"running", "stopped"} :
                      dk' = [dk EXCEPT !.ops = Append(@, Op("stop", dk.cid)),
                                       !.prior = after,
                                       !.wasRunning = TRUE,
                                       !.volumesFrom = dk.cid,
                                       !.cmdArgs = Append(@, VolumesFromOpt(dk.cid)),
                                       !.pc = "remove"]
            \/ /\ dk.prior = "stopped"
               /\ dk' = [dk EXCEPT !.volumesFrom = dk.cid,
                                   !.cmdArgs = Append(@, VolumesFromOpt(dk.cid)),
                                   !.pc = "remove"]
    /\ UNCHANGED <<qname, qout, fin, fout, st, runVars>>

\* os.Remove(cidfile): an error other than not-exist returns "", err
CreateRemove ==
    /\ dk.pc = "remove"
    /\ \/ dk' = [dk EXCEPT !.marker = NoFile, !.pc = "create"]
       \/ /\ dk.marker.exists
          /\ dk' = [dk EXCEPT !.err = Err("remove"), !.pc = "returned"]
    /\ UNCHANGED <<qname, qout, fin, fout, st, runVars>>

\* newCid, err := d.cmdOutput(cmdArgs...): docker writes the marker file when
\* it has created the container
CreateRun ==
    /\ dk.pc = "create"
    /\ LET issued == Append(dk.ops, Op("create", dk.volumesFrom))
       IN  \/ dk' = [dk EXCEPT !.ops = issued, !.newCid = CidOf(dk.who[1], dk.who[2]),
                               !.marker = File(CidOf(dk.who[1], dk.who[2])),
                               !.pc = "settle"]
           \/ dk' = [dk EXCEPT !.ops = issued, !.err = Err("create"), !.pc = "settle"]
    /\ UNCHANGED <<qname, qout, fin, fout, st, runVars>>

\* faulty variant: the superseded container is removed whatever create did
CreateSettleAlways ==
    /\ dk.pc = "settle"
    /\ IF dk.cid # <<>>
       THEN dk' = [dk EXCEPT !.ops = Append(@, Op("rmforce", dk.cid)),
                             !.prior = "gone", !.pc = "returned"]
       ELSE dk' = [dk EXCEPT !.pc = "returned"]
    /\ UNCHANGED <<qname, qout, fin, fout, st, runVars>>

\* faulty variant: nothing is written back after a failed create
CreateSettleNoRestore ==
    /\ dk.pc = "settle"
    /\ IF dk.cid # <<>> /\ dk.err = Nil
       THEN dk' = [dk EXCEPT !.ops = Append(@, Op("rmforce", dk.cid)),
                             !.prior = "gone", !.pc = "returned"]
       ELSE dk' = [dk EXCEPT !.pc = "returned"]
    /\ UNCHANGED <<qname, qout, fin, fout, st, runVars>>

\* if cid != "": RmForce(cid) after a create without error, else
\* WriteFile(cidfile, cid), its result not looked at; return newCid, err
CreateSettle ==
    /\ dk.pc = "settle"
    /\ IF dk.cid = <<>>
       THEN dk' = [dk EXCEPT !.pc = "returned"]
       ELSE IF dk.err = Nil
       THEN \E after \in {dk.prior, "gone"} :
                dk' = [dk EXCEPT !.ops = Append(@, Op("rmforce", dk.cid)),
                                 !.prior = after, !.pc = "returned"]
       ELSE \/ dk' = [dk EXCEPT !.marker = File(dk.cid), !.writeBack = "ok",
                                 !.pc = "returned"]
            \/ dk' = [dk EXCEPT !.writeBack = "failed", !.pc = "returned"]
    /\ UNCHANGED <<qname, qout, fin, fout, st, runVars>>

NextCreate ==
    \/ CreateRead
    \/ CreateInspect
    \/ CreateRemove
    \/ CreateRun
    \/ CreateSettle

SpecCreate == InitCreate /\ [][NextCreate]_vars

\* ----------------------------------------------------- docker.Start, alone
\* the number of times Start asks the engine whether the container runs
StartPolls == 8

errorStartTimeout == Err("Start timeout")

\* the instance that calls Start with the container it has created, with the
\* activation's wait group (attached) or with nil (detached)
InitStart ==
    /\ InitRun({Activation(XrefCluster, {Prepare, Run})})
    /\ qname = <<>>
    /\ qout = "none"
    /\ dk = NoCreate
    /\ fin = <<>>
    /\ fout = NoOut
    /\ \E id \in InstIds(cluster), a \in BOOLEAN :
           st = [NoStart EXCEPT !.pc = "start", !.who = id, !.attached = a,
                                !.cid = CidOf(id[1], id[2])]

\* wg == nil: return d.cmd("start", cid).Run(); else cmd.Start() of
\* "start -a cid", and on success wg.Add(1) and the goroutine that waits
StartIssue ==
    /\ st.pc = "start"
    /\ LET issued == Append(st.ops, Op("start", st.cid))
       IN  IF ~st.attached
           THEN \E e \in {Nil, Err("start")} :
                    st' = [st EXCEPT !.ops = issued, !.err = e, !.pc = "returned"]
           ELSE \/ st' = [st EXCEPT !.err = Err("start"), !.pc = "returned"]
                \/ st' = [st EXCEPT !.ops = issued, !.bg = TRUE, !.pc = "poll"]
    /\ UNCHANGED <<qname, qout, dk, fin, fout, runVars>>

\* go func() { cmd.Wait(); wg.Done() }(): the attached command has ended
StartWaitDone ==
    /\ st.bg
    /\ st' = [st EXCEPT !.bg = FALSE]
    /\ UNCHANGED <<qname, qout, dk, fin, fout, runVars>>

\* faulty variant: the loop gives up one poll late
StartPollOneMore ==
    /\ st.pc = "poll"
    /\ IF st.i < StartPolls + 1
       THEN \/ st' = [st EXCEPT !.confirmed = TRUE, !.i = st.i + 1, !.pc = "returned"]
            \/ st' = [st EXCEPT !.i = st.i + 1]
       ELSE st' = [st EXCEPT !.err = errorStartTimeout, !.pc = "returned"]
    /\ UNCHANGED <<qname, qout, dk, fin, fout, runVars>>

\* for i := 0; i < 8; i++: isRunning(cid) without error and true: return nil;
\* else Sleep and go round; past the loop, return errorStartTimeout. The
\* field i counts the polls made.
StartPoll ==
    /\ st.pc = "poll"
    /\ IF st.i < StartPolls
       THEN \/ st' = [st EXCEPT !.confirmed = TRUE, !.i = st.i + 1, !.pc = "returned"]
            \/ st' = [st EXCEPT !.i = st.i + 1]
       ELSE st' = [st EXCEPT !.err = errorStartTimeout, !.pc = "returned"]
    /\ UNCHANGED <<qname, qout, dk, fin, fout, runVars>>

\* InstanceState.run: if err != nil { is.remove(); return err }, else on to
\* the inspects of the addresses
StartProceed ==
    /\ st.pc = "returned"
    /\ IF st.err # Nil
       THEN st' = [st EXCEPT !.ops = Append(@, Op("rmforce", st.cid)),
                             !.cid = <<>>, !.pc = "failed"]
       ELSE st' = [st EXCEPT !.pc = "publish"]
    /\ UNCHANGED <<qname, qout, dk, fin, fout, runVars>>

NextStart ==
    \/ StartIssue
    \/ StartWaitDone
    \/ StartPoll
    \/ StartProceed

SpecStart == InitStart /\ [][NextStart]_vars

\* ----------------------------------------------------------------- claims
LookupLabels == {"q_lock", "q_loop", "q_check", "q_wait", "q_blocked", "q_unlock"}

\* goroutine t is inside the locked part of queryNode / queryInstance
InLookup(t) == pc[t] \in LookupLabels

\* C1: a lookup of a key its target never publishes returns once the target
\* has set its Stopped flag, under every interleaving: a goroutine that is
\* inside the lookup while the target is stopped and the key is absent is
\* never left without any step the activation could still take (it would stay
\* blocked for ever).
C1_LookupReturnsAfterStop ==
    \A t \in DOMAIN pc :
        (InLookup(t) /\ TargetStopped(lk[t]) /\ lk[t].key \notin DOMAIN TargetVars(lk[t]))
            => ENABLED Next

\* C2: a LoadImage caller that found the entry in the cache returns once the
\* first caller has set the completion flag, under every interleaving: a
\* goroutine in the waiting loop while the flag is set is never left without
\* any step the activation could still take.
C2_WaiterReturnsAfterComplete ==
    \A n \in DOMAIN li :
        (/\ pc[NodeT(n)] \in {"li_loop", "li_wait", "li_blocked"}
         /\ Images[li[n].name].complete = 1)
            => ENABLED Next

\* a LoadImage call of node n has returned its result
Returned(n) == li[n].ret # Err("unset")

\* C3: within one activation the pull is run at most once per image name,
\* exactly once as soon as a LoadImage call for the name has returned, and at
\* most one caller per name has stored a loader in Images.
C3_OnePullPerName ==
    \A name \in DOMAIN pulls :
        /\ pulls[name] <= 1
        /\ Cardinality({n \in DOMAIN li : li[n].name = name /\ li[n].first}) <= 1
        /\ (\E n \in DOMAIN li : li[n].name = name /\ Returned(n)) => pulls[name] = 1

\* two nodes asked for the same name, both calls returned, one pull
C3_Witness ==
    \E n, m \in DOMAIN li :
        /\ n # m
        /\ li[n].name = li[m].name
        /\ Returned(n) /\ Returned(m)
        /\ pulls[li[n].name] = 1

\* C4: a LoadImage call returns only after the one pull for its name has
\* finished, it returns the error of that pull, and any two calls for the
\* same name return the same value.
C4_SharedResult ==
    /\ \A n \in DOMAIN li :
          Returned(n) =>
              /\ li[n].name \in DOMAIN Images
              /\ pulls[li[n].name] = 1
              /\ Images[li[n].name].complete = 1
              /\ li[n].ret = Images[li[n].name].Error
    /\ \A n, m \in DOMAIN li :
          (Returned(n) /\ Returned(m) /\ li[n].name = li[m].name)
              => li[n].ret = li[m].ret

\* a caller that found the loader in the cache has returned the pull's error
C4_Witness ==
    \E n, m \in DOMAIN li :
        /\ n # m
        /\ li[n].name = li[m].name
        /\ li[m].first /\ Returned(m)
        /\ ~li[n].first /\ li[n].ret = Err("pull")

\* goroutine t is at the head of Substitute's loop with a reference left
PendingRef(t) == pc[t] = "s_next" /\ sub[t].k <= Len(sub[t].matches)

\* what the pending reference of t names
RefTarget(t) ==
    globalQueryVar(cluster, Slice(sub[t].text, sub[t].matches[sub[t].k][1] + 2,
                                  sub[t].matches[sub[t].k][2] - 1))

\* t takes a step of its own (a panic elsewhere ends t, it is no step of t)
Steps(t) == ~panicked' /\ (pc'[t] # pc[t] \/ sub'[t] # sub[t] \/ lk'[t] # lk[t])

\* C5: when a cross-reference is looked up and its key is in the target's
\* local scope at that moment, the lookup is over in that one step: it
\* answers found with the published value, the lock and the waiters of the
\* condition variable are left alone, and the value is what Substitute puts
\* in; the target's Stopped flag plays no part.
C5_PresentKeyAnswersAtOnce ==
    [][\A t \in DOMAIN pc :
          (/\ PendingRef(t)
           /\ RefTarget(t).kind \in {"node", "inst"}
           /\ RefTarget(t).key \in DOMAIN TargetVars(RefTarget(t))
           /\ Steps(t))
          => /\ pc'[t] = "s_next"
             /\ lock' = lock
             /\ waiters' = waiters
             /\ lk'[t].exists
             /\ lk'[t].val = TargetVars(RefTarget(t))[RefTarget(t).key]
             /\ ~lk'[t].locked
             /\ ~lk'[t].waited
             /\ sub'[t] = Accumulate(sub[t], lk'[t].val, TRUE)]_vars

\* a lookup of an instance's key was answered without the lock, and the
\* target instance has stopped
C5_Witness ==
    \E t \in DOMAIN pc :
        /\ lk[t].kind = "inst"
        /\ lk[t].exists
        /\ ~lk[t].locked
        /\ ~lk[t].waited
        /\ lk[t].val = TargetVars(lk[t])[lk[t].key]
        /\ TargetStopped(lk[t])
        /\ pc[InstT(lk[t].n, lk[t].j)] = "done"

\* C6: once Run has returned, every node's goroutine was launched and has
\* finished, every NodeState has Stopped set and its Error is what that
\* node's run returned.
C6_RunWaitsForNodes ==
    pc[Main] \in {"m_done", "m_anyerr"} =>
        \A n \in DOMAIN nodes :
            /\ pc[NodeT(n)] = "done"
            /\ nodes[n].Stopped
            /\ nodes[n].Error = nodes[n].rv

\* Run has returned; one node failed and another did not
C6_Witness ==
    /\ pc[Main] = "m_done"
    /\ \E n, m \in DOMAIN nodes : nodes[n].Error # Nil /\ nodes[m].Error = Nil

\* InstanceState.run of the instance has returned
RunReturned(id) == pc[InstT(id[1], id[2])] \in {"i_ret", "i_stopped", "i_notify2", "done"}

\* C7 (as stated): while the process lives, an instance's Stopped flag is
\* set exactly when its run has returned.
C7_StoppedIffReturned ==
    ~panicked => \A id \in DOMAIN insts : insts[id].Stopped <=> RunReturned(id)

\* C7 (amended): while the process lives, Stopped is set only after the
\* instance's run has returned, and it is set once the instance's goroutine
\* is past its Stopped assignment; the flag is never reset and only the
\* instance's own goroutine, at that assignment, changes it.
C7_StoppedAfterReturn ==
    /\ [](~panicked =>
            \A id \in DOMAIN insts :
                /\ insts[id].Stopped => RunReturned(id)
                /\ pc[InstT(id[1], id[2])] \in {"i_notify2", "done"} => insts[id].Stopped)
    /\ [][\A id \in DOMAIN insts :
             /\ insts[id].Stopped => insts'[id].Stopped
             /\ insts'[id].Stopped # insts[id].Stopped
                   => /\ pc[InstT(id[1], id[2])] = "i_stopped"
                      /\ pc'[InstT(id[1], id[2])] = "i_notify2"]_vars

\* an instance's run returned an error and the flag is set, while another
\* goroutine is still at work
C7_Witness ==
    \E id \in DOMAIN insts :
        /\ insts[id].Stopped
        /\ insts[id].Error # Nil
        /\ pc[InstT(id[1], id[2])] = "i_notify2"

\* the reference part of a cross-reference name, after its "key:" prefix
RefOf(name) == SliceFrom(name, Index(name, ":") + 1)

KeyOf(name) == Slice(name, 0, Index(name, ":"))

KnownNode(c, nm) == \E i \in 1..Len(c) : c[i].Name = nm

NodeNamed(c, nm) == CHOOSE i \in 1..Len(c) : c[i].Name = nm

\* a decimal number, with or without a sign
IsNumber(text) ==
    LET body == IF text # <<>> /\ text[1] \in {"+", "-"} THEN Tail(text) ELSE text
    IN  body # <<>> /\ \A i \in 1..Len(body) : body[i] \in Digits

NumberOf(text) ==
    IF text[1] = "-" THEN 0 - DecVal(Tail(text))
    ELSE IF text[1] = "+" THEN DecVal(Tail(text))
    ELSE DecVal(text)

\* the positions of "-" in a reference
Dashes(ref) == {i \in 1..Len(ref) : ref[i] = "-"}

LastDash(ref) == CHOOSE i \in Dashes(ref) : \A k \in Dashes(ref) : k <= i

\* an ip:/mac: reference <node>-<i> that has no "-", names an unknown node,
\* has an index that is no number, or an index outside the node's instances
MalformedInstanceRef(c, ref) ==
    \/ Dashes(ref) = {}
    \/ LET nm == SubSeq(ref, 1, LastDash(ref) - 1)
           ix == SubSeq(ref, LastDash(ref) + 1, Len(ref))
       IN  \/ ~KnownNode(c, nm)
           \/ ~IsNumber(ix)
           \/ /\ KnownNode(c, nm)
              /\ IsNumber(ix)
              /\ (NumberOf(ix) < 0 \/ NumberOf(ix) >= c[NodeNamed(c, nm)].Instances)

Malformed(c, name) ==
    IF KeyOf(name) = K_instances THEN ~KnownNode(c, RefOf(name))
    ELSE MalformedInstanceRef(c, RefOf(name))

\* C8: a malformed cross-reference name is answered not-found at once: the
\* provider neither goes on to block, nor panics on an index outside the
\* node's instances, nor answers found.
C8_MalformedIsNotFound ==
    (qout # "none" /\ Malformed(cluster, qname)) => qout = "notfound"

\* an index one past the node's last instance was answered not-found
C8_Witness ==
    /\ qname = K_ip \o <<":", "b", "-", "1">>
    /\ Malformed(cluster, qname)
    /\ qout = "notfound"

\* C9: AnyError answers true exactly when some node's Error or some
\* instance's Error is not nil.
C9_AnyErrorIffSomeError ==
    pc[Main] = "m_anyerr" =>
        (anyError <=> \/ \E n \in DOMAIN nodes : nodes[n].Error # Nil
                      \/ \E id \in DOMAIN insts : insts[id].Error # Nil)

\* AnyError answered true with no node error: an instance's error alone
C9_Witness ==
    /\ pc[Main] = "m_anyerr"
    /\ anyError
    /\ \A n \in DOMAIN nodes : nodes[n].Error = Nil

\* the last command of the instance left an exit code that is not 0, or none
\* that could be read
BadExit(id) == insts[id].exit \notin {NoExit, 0}

\* the goroutine of the instance is past runCommands
PastCommands(id) ==
    pc[InstT(id[1], id[2])] \in {"i_stop", "i_ret", "i_stopped", "i_notify2", "done"}

\* the instance's Error has been recorded
Recorded(id) == pc[InstT(id[1], id[2])] \in {"i_stopped", "i_notify2", "done"}

\* the commands the instance has executed
Execs(id) == SelectSeq(insts[id].ops, LAMBDA op : op[1] = "exec")

ExecsAfter(id) == SelectSeq(insts'[id].ops, LAMBDA op : op[1] = "exec")

\* C10 (as stated): after a command exit that is not 0 or cannot be read, the
\* instance runs no further command and its recorded Error is the exit error
\* naming the substituted command.
C10_ErrorNamesCodeAndCommand ==
    ~panicked =>
        \A id \in DOMAIN insts :
            BadExit(id) =>
                /\ PastCommands(id)
                /\ Recorded(id) =>
                      /\ insts[id].Error.kind = "Exit"
                      /\ insts[id].Error.command = Execs(id)[Len(Execs(id))][2]

\* C10 (amended): after a command exit that is not 0 or cannot be read, the
\* instance runs no further command; for an exit code c # 0 the recorded
\* Error is the exit error with c and the substituted command, and for an
\* exit code that cannot be read it is the read or parse error itself.
C10_FailedCommandEndsRun ==
    /\ [](~panicked =>
            \A id \in DOMAIN insts :
                BadExit(id) =>
                    /\ PastCommands(id)
                    /\ Recorded(id) =>
                          IF insts[id].exit = Unreadable
                          THEN insts[id].Error \in {Err("read"), Err("atoi")}
                          ELSE insts[id].Error =
                                  ExitErr(insts[id].exit, Execs(id)[Len(Execs(id))][2]))
    /\ [][\A id \in DOMAIN insts :
             BadExit(id) => (BadExit(id)' /\ ExecsAfter(id) = Execs(id))]_vars

\* a command that had a reference substituted exited with code 2, commands
\* were left in the group, and the Error is recorded
C10_Witness ==
    \E id \in DOMAIN insts :
        /\ insts[id].exit = 2
        /\ Recorded(id)
        /\ insts[id].Error = ExitErr(2, insts[id].command)
        /\ insts[id].ci < Len(cluster[id[1]].Commands)
        /\ insts[id].command # Trim(cluster[id[1]].Commands[insts[id].ci])

\* LoadImage of node n has returned an error
LoadFailed(n) == Returned(n) /\ li[n].ret # Nil

\* the goroutine of node n is past the assignment of ns.Error
NodeRecorded(n) == pc[NodeT(n)] \in {"n_stopped", "n_notify2", "done"}

\* C11: once a node's image load has failed, none of its instance goroutines
\* is ever started and no docker command is issued for any of its instances,
\* and the Error recorded for the node is the load error.
C11_LoadFailureAbortsNode ==
    \A n \in DOMAIN nodes :
        LoadFailed(n) =>
            /\ \A id \in DOMAIN insts :
                  id[1] = n => /\ pc[InstT(id[1], id[2])] \in {"idle", "crashed"}
                               /\ insts[id].ops = <<>>
                               /\ insts[id].ContainerId = <<>>
            /\ NodeRecorded(n) => nodes[n].Error = li[n].ret

\* a node with an instance failed to load its image and has finished
C11_Witness ==
    \E n \in DOMAIN nodes :
        /\ LoadFailed(n)
        /\ cluster[n].Instances > 0
        /\ pc[NodeT(n)] = "done"
        /\ nodes[n].Error = Err("pull")

\* the goroutine of instance id, or the wait for its container, takes a step
InstSteps(id) ==
    /\ ~panicked'
    /\ pc'[Main] = pc[Main]
    /\ pc[InstT(id[1], id[2])] # "idle"
    /\ (pc'[InstT(id[1], id[2])] # pc[InstT(id[1], id[2])] \/ insts'[id] # insts[id])

\* node n has launched its instance goroutines
Launched(n) ==
    \E id \in DOMAIN insts : id[1] = n /\ pc[InstT(id[1], id[2])] # "idle"

\* instance id went through create, start and the rest of its lifecycle
\* without an error
RanClean(id) ==
    /\ pc[InstT(id[1], id[2])] = "done"
    /\ insts[id].Error = Nil
    /\ Len(insts[id].ops) >= 2
    /\ insts[id].ops[1] = Op("create", CidOf(id[1], id[2]))
    /\ insts[id].ops[2] = Op("start", CidOf(id[1], id[2]))

\* C12: a step of one instance leaves every other instance's state and
\* position as they are, and leaves every node's Error and result alone; a
\* node that has launched its instances records a nil Error, whatever errors
\* its instances have.
C12_InstanceFailureIsLocal ==
    /\ [](\A n \in DOMAIN nodes :
             (Launched(n) /\ NodeRecorded(n)) => nodes[n].Error = Nil)
    /\ [][\A id \in DOMAIN insts :
             InstSteps(id) =>
                 /\ \A other \in DOMAIN insts \ {id} :
                       /\ insts'[other] = insts[other]
                       /\ pc'[InstT(other[1], other[2])] = pc[InstT(other[1], other[2])]
                 /\ \A n \in DOMAIN nodes :
                       /\ nodes'[n].Error = nodes[n].Error
                       /\ nodes'[n].rv = nodes[n].rv
                       /\ nodes'[n].Stopped = nodes[n].Stopped
                       /\ pc'[NodeT(n)] = pc[NodeT(n)]]_vars

\* one instance of a node failed, its sibling ran its whole lifecycle without
\* an error, and the node finished with a nil Error
C12_Witness ==
    \E id, other \in DOMAIN insts :
        /\ id # other
        /\ id[1] = other[1]
        /\ insts[id].Error # Nil
        /\ RanClean(other)
        /\ pc[NodeT(id[1])] = "done"
        /\ nodes[id[1]].Error = Nil

\* Create has returned without an error
Created == dk.pc = "returned" /\ dk.err = Nil

StopOld   == Op("stop", PriorCid)
CreateNew == Op("create", PriorCid)
RemoveOld == Op("rmforce", PriorCid)

\* C13: when Create found a marker naming a running container, the docker
\* commands it issues are, in this order, stop of the old container, create
\* with --volumes-from the old one, force-remove of the old one: at every
\* moment a prefix of that sequence, with the force-remove there only once
\* create has returned without an error, all three there when Create returns
\* without an error, and no force-remove there when create failed.
C13_StopCreateRemove ==
    dk.wasRunning =>
        /\ dk.ops \in {<<StopOld>>, <<StopOld, CreateNew>>, <<StopOld, CreateNew, RemoveOld>>}
        /\ Len(dk.ops) = 3 => (dk.err = Nil /\ dk.newCid # <<>>)
        /\ Created => dk.ops = <<StopOld, CreateNew, RemoveOld>>
        /\ (dk.pc = "returned" /\ dk.err = Err("create")) => dk.ops = <<StopOld, CreateNew>>

\* the old container ran, the new one was created, the old one was removed
C13_Witness ==
    /\ dk.wasRunning
    /\ Created
    /\ dk.ops = <<StopOld, CreateNew, RemoveOld>>

\* C14 (as stated): when Create returns an error after an id was read from the
\* marker file, the marker file holds that id again, the container it names
\* has not been removed, and the id returned is empty.
C14_MarkerRestored ==
    (dk.pc = "returned" /\ dk.err # Nil /\ dk.read # <<>>) =>
        /\ dk.marker = File(dk.read)
        /\ RemoveOld \notin {dk.ops[i] : i \in 1..Len(dk.ops)}
        /\ dk.newCid = <<>>

\* Create kept the id it read: the inspect of that container gave no error
KeptPrior == dk.cid # <<>>

\* C14 (amended): when Create returns an error after an id was read from the
\* marker file, the container it names has not been removed and the id
\* returned is empty; the marker file holds either that id or nothing: it
\* holds the id when the marker could not be removed; when create failed
\* after the inspect of the old container failed, the id was dropped, the
\* marker was removed and nothing is written back; when create failed with
\* the id kept, the id is written back, and the marker holds it if that write
\* succeeded.
C14_MarkerRestoredIfKept ==
    (dk.pc = "returned" /\ dk.err # Nil /\ dk.read # <<>>) =>
        /\ RemoveOld \notin {dk.ops[i] : i \in 1..Len(dk.ops)}
        /\ dk.newCid = <<>>
        /\ dk.marker \in {File(dk.read), NoFile}
        /\ dk.err = Err("remove") => dk.marker = File(dk.read)
        /\ (dk.err = Err("create") /\ ~KeptPrior) =>
               (dk.marker = NoFile /\ dk.writeBack = "none")
        /\ (dk.err = Err("create") /\ KeptPrior) =>
               /\ dk.writeBack \in {"ok", "failed"}
               /\ dk.writeBack = "ok" <=> dk.marker = File(dk.read)

\* create failed with the old id kept, and the marker holds the old id again
C14_Witness ==
    /\ dk.pc = "returned"
    /\ dk.err = Err("create")
    /\ KeptPrior
    /\ dk.read = PriorCid
    /\ dk.marker = File(PriorCid)
    /\ dk.prior # "gone"

\* StopAndWait has issued its stops
TornDown == pc[Main] \in {"m_teardown", "m_stopped"}

\* the docker stop commands issued for instance id
Stops(id) == SelectSeq(insts[id].ops, LAMBDA op : op[1] = "stop")

\* C15: StopAndWait stops exactly the instances that have a ContainerId, each
\* with a stop of that container, the instance's state otherwise left as it
\* was, and it returns only with the activation's wait group at zero.
C15_StopsCreatedInstances ==
    /\ [](/\ TornDown =>
               \A id \in DOMAIN insts :
                   /\ insts[id].tornDown <=> insts[id].ContainerId # <<>>
                   /\ insts[id].tornDown =>
                          Stops(id)[Len(Stops(id))] = Op("stop", insts[id].ContainerId)
          /\ ~TornDown => \A id \in DOMAIN insts : ~insts[id].tornDown
          /\ pc[Main] = "m_stopped" => WaitGroup = 0)
    /\ [][(pc[Main] = "m_anyerr" /\ pc'[Main] = "m_teardown") =>
             \A id \in DOMAIN insts :
                 /\ insts'[id].ContainerId = insts[id].ContainerId
                 /\ insts'[id].Error = insts[id].Error
                 /\ Len(insts'[id].ops) =
                       Len(insts[id].ops) + (IF insts[id].ContainerId # <<>> THEN 1 ELSE 0)]_vars

\* StopAndWait has returned: it stopped one instance's container and left
\* alone an instance that has none
C15_Witness ==
    /\ pc[Main] = "m_stopped"
    /\ \E id, other \in DOMAIN insts :
          /\ insts[id].tornDown
          /\ ~insts[other].tornDown
          /\ insts[other].ContainerId = <<>>

\* the value a reference name stands for: its value when it resolves, the
\* empty text when it does not
ValueOf(c, name) ==
    LET r == globalQueryVar(c, name) IN IF r.exists THEN r.val ELSE <<>>

\* the text from offset i on, with every reference replaced by what it
\* stands for and every other character kept
RECURSIVE ExpandFrom(_, _, _)
ExpandFrom(c, text, i) ==
    IF i >= Len(text) THEN <<>>
    ELSE IF MatchAt(text, i) >= 0
         THEN ValueOf(c, Slice(text, i + 2, MatchAt(text, i) - 1))
                  \o ExpandFrom(c, text, MatchAt(text, i))
         ELSE <<text[i + 1]>> \o ExpandFrom(c, text, i + 1)

\* C16: Substitute returns the text with every reference replaced by its
\* value, or by nothing when it does not resolve, and with every character
\* outside the references kept, in order.
C16_SubstituteKeepsText ==
    fout.set => fout.val = ExpandFrom(cluster, fin, 0)

\* the declared mapping has the form src:dst, with a source
IsMapping(vol) == Index(vol, ":") > 0

SrcOf(vol) == SubSeq(vol, 1, Index(vol, ":"))

DstOf(vol) == SubSeq(vol, Index(vol, ":") + 2, Len(vol))

\* a source that starts with a slash
Absolute(src) == src[1] = "/"

\* a source made of plain names only: no empty, "." or ".." element between
\* its slashes
Plain(src) ==
    \A i \in 1..Len(src) :
        /\ src[i] # "."
        /\ src[i] = "/" => (i > 1 /\ i < Len(src) /\ src[i + 1] # "/")

\* C17 (as stated): a mapping src:dst is handed on as <dataDir>/<src>:dst
\* when src is relative and unchanged when src is absolute.
C17_VolumeUnderDataDir ==
    (fout.set /\ IsMapping(fin)) =>
        IF Absolute(SrcOf(fin))
        THEN fout.val = fin
        ELSE fout.val = DataDir \o <<"/">> \o SrcOf(fin) \o <<":">> \o DstOf(fin)

\* C17 (amended): a mapping src:dst is handed on unchanged when src is
\* absolute; when src is relative it is handed on as p:dst, where p is the
\* cleaned form of <dataDir>/<src>: an absolute path without empty or "."
\* elements, and <dataDir>/<src> itself when src is made of plain names.
C17_VolumeCleanedUnderDataDir ==
    (fout.set /\ IsMapping(fin)) =>
        IF Absolute(SrcOf(fin))
        THEN fout.val = fin
        ELSE /\ fout.val = Clean(DataDir \o <<"/">> \o SrcOf(fin)) \o <<":">> \o DstOf(fin)
             /\ fout.val[1] = "/"
             /\ Plain(SrcOf(fin)) =>
                   fout.val = DataDir \o <<"/">> \o SrcOf(fin) \o <<":">> \o DstOf(fin)

\* a relative source with a directory in it was put under the data directory
C17_Witness ==
    /\ fin = <<"a", "/", "a", ":", "a">>
    /\ fout.set
    /\ fout.val = DataDir \o <<"/", "a", "/", "a", ":", "a">>

\* C18: no step takes a key out of a node's or an instance's local scope.
C18_KeysStay ==
    [][/\ \A n \in DOMAIN nodes :
             DOMAIN nodes[n].LocalVars \subseteq DOMAIN nodes'[n].LocalVars
       /\ \A id \in DOMAIN insts :
             DOMAIN insts[id].LocalVars \subseteq DOMAIN insts'[id].LocalVars]_vars

\* an instance has finished and its container was removed, and the address
\* it published is still in its scope, as are its node's keys
C18_Witness ==
    \E id \in DOMAIN insts :
        /\ pc[InstT(id[1], id[2])] = "done"
        /\ insts[id].ContainerId = <<>>
        /\ \E i \in 1..Len(insts[id].ops) : insts[id].ops[i][1] = "rmforce"
        /\ {K_ip, K_mac} \subseteq DOMAIN insts[id].LocalVars
        /\ {K_template, K_instances, K_image} \subseteq DOMAIN nodes[id[1]].LocalVars

\* C19: every step that writes a wait predicate (a loader's complete flag,
\* a node's Stopped, an instance's Stopped) is taken by a goroutine that
\* holds the activation lock.
C19_PredicateWritesUnderLock ==
    [][/\ \A n \in DOMAIN nodes :
             nodes'[n].Stopped # nodes[n].Stopped => lock = NodeT(n)
       /\ \A id \in DOMAIN insts :
             insts'[id].Stopped # insts[id].Stopped => lock = InstT(id[1], id[2])
       /\ \A name \in DOMAIN Images :
             (name \in DOMAIN Images' /\ Images'[name].complete # Images[name].complete)
                 => \E n \in DOMAIN li :
                        /\ li[n].name = name
                        /\ pc[NodeT(n)] = "li_store"
                        /\ lock = NodeT(n)]_vars

\* node n has ended without launching its instances
Aborted(n) == nodes[n].Stopped /\ ~Launched(n) /\ cluster[n].Instances > 0

\* C20: a lookup of the address of an instance whose node has ended without
\* launching its instances returns: a goroutine inside such a lookup is never
\* left without any step the activation could still take.
C20_LookupReturnsAfterNodeAbort ==
    \A t \in DOMAIN pc :
        (InLookup(t) /\ lk[t].kind = "inst" /\ Aborted(lk[t].n)) => ENABLED Next

\* C21: a lookup that took the lock returns not-found only if the key is
\* absent from the target's local scope when it returns: a goroutine about to
\* leave queryNode / queryInstance without a value never has a target whose
\* scope holds the key (the target published it before it stopped).
C21_NotFoundOnlyIfAbsent ==
    \A t \in DOMAIN pc :
        (pc[t] = "q_unlock" /\ ~lk[t].exists)
            => lk[t].key \notin DOMAIN TargetVars(lk[t])

\* NodeState.run of node n has returned an error
RunFailed(n) == nodes[n].rv # Nil

\* C22: whatever error a node's run returns, the node's goroutine goes on to
\* record it in Error, set Stopped, broadcast and signal completion: once the
\* run has returned an error the goroutine is at one of those steps or past
\* them, with the Error recorded from the assignment on, Stopped set from its
\* assignment on, and the completion counted when the goroutine is done.
C22_EveryOutcomeRecorded ==
    \A n \in DOMAIN nodes :
        RunFailed(n) =>
            /\ pc[NodeT(n)] \in {"n_ret", "n_stopped", "n_notify2", "done"}
            /\ NodeRecorded(n) => nodes[n].Error = nodes[n].rv
            /\ pc[NodeT(n)] \in {"n_notify2", "done"} => nodes[n].Stopped
            /\ pc[NodeT(n)] = "done" =>
                   wgRun <= Len(cluster) - Cardinality({m \in DOMAIN nodes : pc[NodeT(m)] = "done"})

\* the goroutine of instance id is between its launch and the broadcast that
\* follows the two inspects
BeforeBroadcast(id) ==
    pc[InstT(id[1], id[2])] \in
        {"i_prep", "i_create", "i_start", "i_rmfail", "i_ip", "i_mac", "i_notify"}

\* the start of instance id has failed
StartFailed(id) == insts[id].rv \in {Err("start"), Err("Start timeout")}

\* the start of instance id succeeded and its goroutine is past the broadcast
\* that follows the two inspects
PastBroadcast(id) ==
    /\ pc[InstT(id[1], id[2])] \notin {"idle", "crashed"}
    /\ ~BeforeBroadcast(id)
    /\ \E i \in 1..Len(insts[id].ops) : insts[id].ops[i][1] = "start"
    /\ ~StartFailed(id)

\* C23 (as stated): an instance whose start succeeded has both ip and mac in
\* its local scope once it is past the broadcast, and it runs no command and
\* does not set Stopped before that broadcast.
C23_IdentityPublished ==
    \A id \in DOMAIN insts :
        /\ PastBroadcast(id) => {K_ip, K_mac} \subseteq DOMAIN insts[id].LocalVars
        /\ BeforeBroadcast(id) => (Execs(id) = <<>> /\ ~insts[id].Stopped)

\* C23 (amended): an instance publishes nothing but ip and mac, each with the
\* value the engine reported and each only after a start that succeeded; it
\* runs no command and does not set Stopped before the broadcast that follows
\* the two inspects; that broadcast wakes every waiter; and past it the
\* instance's scope does not change any more. Either key may be missing: it
\* is written only when its inspect gave no error.
C23_IdentityPublishedIfInspected ==
    /\ [](\A id \in DOMAIN insts :
             /\ DOMAIN insts[id].LocalVars \subseteq {K_ip, K_mac}
             /\ K_ip \in DOMAIN insts[id].LocalVars
                    => insts[id].LocalVars[K_ip] = IpOf(id[1], id[2])
             /\ K_mac \in DOMAIN insts[id].LocalVars
                    => insts[id].LocalVars[K_mac] = MacOf(id[1], id[2])
             /\ insts[id].LocalVars # NoVars
                    => (\E i \in 1..Len(insts[id].ops) : insts[id].ops[i][1] = "start")
                           /\ ~StartFailed(id)
             /\ BeforeBroadcast(id) => (Execs(id) = <<>> /\ ~insts[id].Stopped))
    /\ [][\A id \in DOMAIN insts :
             /\ (pc[InstT(id[1], id[2])] = "i_notify"
                     /\ pc'[InstT(id[1], id[2])] \in {"i_cmd", "i_stop"})
                    => waiters' = {}
             /\ pc[InstT(id[1], id[2])] \notin {"i_ip", "i_mac"}
                    => insts'[id].LocalVars = insts[id].LocalVars]_vars

\* an instance whose start succeeded published both keys and is past the
\* broadcast, and a goroutine that had waited for one of them got the value
C23_Witness ==
    \E id \in DOMAIN insts :
        /\ PastBroadcast(id)
        /\ {K_ip, K_mac} \subseteq DOMAIN insts[id].LocalVars
        /\ \E t \in DOMAIN pc :
              /\ lk[t].kind = "inst" /\ lk[t].n = id[1] /\ lk[t].j = id[2]
              /\ lk[t].waited
              /\ lk[t].exists

\* the goroutine of instance id has been started
InstStarted(id) ==
    pc[InstT(id[1], id[2])] \notin {"idle", "crashed"} \/ insts[id].Logger

\* the docker argument list of node n as NodeState.run leaves it for a node
\* without docker properties: the workspace volume, the working directory,
\* the resolved image (ns.Image, published as "image")
CompleteArgs(n) ==
    << <<"-", "v">>, DataDir \o <<":">> \o workspace, <<"-", "w">>, workspace,
       nodes[n].Image >>

\* C24: an instance goroutine is started, and so a create is issued, only
\* after the node's image load has returned nil and the node's docker
\* argument list is complete, ending with the resolved image; no step changes
\* the argument list of a node once one of its instance goroutines has
\* started.
C24_CreateAfterSetup ==
    /\ [](\A id \in DOMAIN insts :
             /\ insts[id].ops # <<>> => InstStarted(id)
             /\ InstStarted(id) =>
                    /\ li[id[1]].ret = Nil
                    /\ nodes[id[1]].DockerArgs = CompleteArgs(id[1])
                    /\ K_image \in DOMAIN nodes[id[1]].LocalVars
                    /\ nodes[id[1]].LocalVars[K_image] = nodes[id[1]].Image)
    /\ [][\A id \in DOMAIN insts :
             InstStarted(id) => nodes'[id[1]].DockerArgs = nodes[id[1]].DockerArgs]_vars

\* a container was created for an instance of a node whose image name had a
\* reference in it: the argument list ends with the resolved name
C24_Witness ==
    \E id \in DOMAIN insts :
        /\ insts[id].ops # <<>>
        /\ insts[id].ops[1] = Op("create", CidOf(id[1], id[2]))
        /\ li[id[1]].ret = Nil
        /\ Len(nodes[id[1]].DockerArgs) = 5
        /\ nodes[id[1]].DockerArgs[5] = <<"i", "0">>
        /\ cluster[id[1]].Image # <<"i", "0">>

\* C25 (as stated): with or without a wait group, the caller of Start goes
\* on to publish the addresses only after the engine has reported the
\* container as running, within at most 8 polls; after 8 polls without such a
\* report Start returns the start-timeout error.
C25_ProceedsOnlyWhenRunning ==
    /\ st.i <= StartPolls
    /\ st.pc = "publish" => st.confirmed
    /\ (st.pc \in {"returned", "failed"} /\ st.i = StartPolls /\ ~st.confirmed)
           => st.err = errorStartTimeout

\* C25 (amended): with a wait group (attached), the caller goes on to publish
\* the addresses only after the engine has reported the container as running
\* in one of at most 8 polls, and after 8 polls without such a report Start
\* returns the start-timeout error and the caller does not go on; without a
\* wait group (detached) Start makes no poll at all and the caller goes on as
\* soon as the start command has returned without an error.
C25_AttachedProceedsOnlyWhenRunning ==
    /\ st.i <= StartPolls
    /\ st.attached =>
          /\ st.pc = "publish" => (st.confirmed /\ st.err = Nil /\ st.i >= 1)
          /\ st.confirmed => st.pc \in {"returned", "publish"}
          /\ (st.pc \in {"returned", "failed"} /\ ~st.confirmed /\ st.err # Err("start"))
                 => (st.i = StartPolls /\ st.err = errorStartTimeout)
          /\ st.err = errorStartTimeout => (st.i = StartPolls /\ ~st.confirmed)
    /\ ~st.attached =>
          /\ st.i = 0
          /\ ~st.confirmed
          /\ ~st.bg
          /\ st.err # errorStartTimeout
          /\ st.pc = "publish" => st.err = Nil

\* attached, the engine reported the container as running at the eighth poll
\* and the caller went on
C25_Witness ==
    /\ st.attached
    /\ st.pc = "publish"
    /\ st.confirmed
    /\ st.i = StartPolls

\* the docker commands of an instance whose start failed, up to the removal
FailedStartOps(id) ==
    << Op("create", CidOf(id[1], id[2])), Op("start", CidOf(id[1], id[2])),
       Op("rmforce", CidOf(id[1], id[2])) >>

\* C26: once the start of an instance has failed and its run has returned,
\* the container it had created has been force-removed, its ContainerId is
\* empty, nothing else was done for it (no address published, no command
\* run, no stop), and the Error recorded for it is the start error; no later
\* step issues another docker command for it or writes its scope.
C26_StartFailureRemoves ==
    /\ [](~panicked =>
            \A id \in DOMAIN insts :
                StartFailed(id) =>
                    /\ pc[InstT(id[1], id[2])] \in
                           {"i_rmfail", "i_ret", "i_stopped", "i_notify2", "done"}
                    /\ insts[id].LocalVars = NoVars
                    /\ Execs(id) = <<>>
                    /\ RunReturned(id) =>
                           /\ insts[id].ContainerId = <<>>
                           /\ insts[id].ops = FailedStartOps(id)
                    /\ Recorded(id) => insts[id].Error = insts[id].rv)
    /\ [][\A id \in DOMAIN insts :
             (StartFailed(id) /\ RunReturned(id)) =>
                 /\ insts'[id].ops = insts[id].ops
                 /\ insts'[id].LocalVars = insts[id].LocalVars
                 /\ insts'[id].ContainerId = insts[id].ContainerId]_vars

\* an attached start timed out: the container was removed, the timeout is
\* the instance's Error, and the activation has torn down
C26_Witness ==
    \E id \in DOMAIN insts :
        /\ pc[InstT(id[1], id[2])] = "done"
        /\ insts[id].Error = Err("Start timeout")
        /\ insts[id].ContainerId = <<>>
        /\ insts[id].ops = FailedStartOps(id)
        /\ pc[Main] = "m_stopped"

\* the start of instance id succeeded and its run has returned
LifecycleEnded(id) == PastBroadcast(id) /\ RunReturned(id)

\* the force-removes issued for instance id
Removals(id) == SelectSeq(insts[id].ops, LAMBDA op : op[1] = "rmforce")

\* C27 (as stated): when the run of an instance that got past start has
\* returned, its container was stopped exactly if Stop is set, and it was
\* force-removed, with the marker file gone and ContainerId empty, exactly
\* if Stop and Remove are both set; with Stop clear ContainerId is not empty.
C27_StopAndRemoveByFlags ==
    \A id \in DOMAIN insts :
        (LifecycleEnded(id) /\ ~insts[id].tornDown) =>
            /\ Stops(id) # <<>> <=> Stop \in flags
            /\ (Removals(id) # <<>> /\ ~insts[id].marker /\ insts[id].ContainerId = <<>>)
                   <=> {Stop, Remove} \subseteq flags
            /\ Stop \notin flags => insts[id].ContainerId # <<>>

\* C27 (amended): when the run of an instance that got past start has
\* returned, its container was stopped (once) exactly if Stop is set, and it
\* was force-removed (once, after the stop) with ContainerId cleared exactly
\* if Stop and Remove are both set; otherwise ContainerId still names the
\* container. The marker file is gone only if Stop and Remove are both set,
\* and then only if its deletion succeeded: a deletion that fails is ignored
\* and leaves the file (and is.cidfile) in place.
C27_StopAndRemoveByFlagsMarkerIfDeleted ==
    \A id \in DOMAIN insts :
        (LifecycleEnded(id) /\ ~insts[id].tornDown) =>
            /\ Stops(id) = (IF Stop \in flags
                            THEN <<Op("stop", CidOf(id[1], id[2]))>> ELSE <<>>)
            /\ Removals(id) = (IF {Stop, Remove} \subseteq flags
                               THEN <<Op("rmforce", CidOf(id[1], id[2]))>> ELSE <<>>)
            /\ Removals(id) # <<>> =>
                   /\ insts[id].ops[Len(insts[id].ops)][1] = "rmforce"
                   /\ insts[id].ops[Len(insts[id].ops) - 1][1] = "stop"
            /\ insts[id].ContainerId =
                   (IF {Stop, Remove} \subseteq flags THEN <<>> ELSE CidOf(id[1], id[2]))
            /\ ~insts[id].marker => {Stop, Remove} \subseteq flags
            /\ insts[id].marker <=> insts[id].cidfile

\* Stop and Remove set, a command failed: the container was stopped and
\* removed and the marker file is gone
C27_Witness ==
    \E id \in DOMAIN insts :
        /\ {Stop, Remove} \subseteq flags
        /\ LifecycleEnded(id)
        /\ insts[id].Error.kind = "Exit"
        /\ Stops(id) # <<>>
        /\ Removals(id) # <<>>
        /\ insts[id].ContainerId = <<>>
        /\ ~insts[id].marker

\* a reference <node>-<i> that names the requester's own instance
OwnInstanceRef(c, ref) ==
    /\ Dashes(ref) # {}
    /\ SubSeq(ref, 1, LastDash(ref) - 1) = c[Requester.n].Name
    /\ IsNumber(SubSeq(ref, LastDash(ref) + 1, Len(ref)))
    /\ NumberOf(SubSeq(ref, LastDash(ref) + 1, Len(ref))) = Requester.j

\* the name asks for a key of the requester's own scope: its own ip or mac,
\* or the instance count of its own node
OwnScope(c, name) ==
    IF KeyOf(name) = K_instances THEN RefOf(name) = c[Requester.n].Name
    ELSE OwnInstanceRef(c, RefOf(name))

\* C28: a lookup of a key of the requester's own scope that is not there is
\* answered not-found at once: the provider does not go on to take the lock
\* and wait, and it neither panics nor answers found.
C28_OwnScopeNeverBlocks ==
    (/\ qout # "none"
     /\ OwnScope(cluster, qname)
     /\ KeyOf(qname) \notin DOMAIN (IF KeyOf(qname) = K_instances
                                    THEN nodes[Requester.n].LocalVars
                                    ELSE insts[<<Requester.n, Requester.j>>].LocalVars))
        => qout = "notfound"

\* the requester asked for its own mac, written with a sign, before it was
\* published, and was answered not-found
C28_Witness ==
    /\ qname = K_mac \o <<":", "a", "-", "+", "0">>
    /\ OwnScope(cluster, qname)
    /\ qout = "notfound"

\* the references a text has in it
RefsIn(text) ==
    {Slice(text, FindAllStringIndex(text)[k][1] + 2, FindAllStringIndex(text)[k][2] - 1) :
        k \in 1..Len(FindAllStringIndex(text))}

\* a run command of node n refers to the ip or mac of instance id
RefersTo(c, n, id) ==
    /\ c[n].HasRun
    /\ \E i \in 1..Len(c[n].Commands) :
          \E name \in RefsIn(c[n].Commands[i]) :
              /\ queryInstanceTarget(c, RefOf(name), KeyOf(name)).kind = "inst"
              /\ KeyOf(name) \in {K_ip, K_mac}
              /\ queryInstanceTarget(c, RefOf(name), KeyOf(name)).n = id[1]
              /\ queryInstanceTarget(c, RefOf(name), KeyOf(name)).j = id[2]

\* two instances whose run commands refer to each other's ip or mac
Mutual(c) ==
    \E id, other \in InstIds(c) :
        id # other /\ RefersTo(c, id[1], other) /\ RefersTo(c, other[1], id)

\* nothing has failed so far, and every instance has started, has published
\* both ip and mac and is past the broadcast that follows
AllPublished ==
    /\ ~panicked
    /\ \A n \in DOMAIN nodes : nodes[n].rv = Nil
    /\ \A id \in DOMAIN insts :
          /\ insts[id].rv = Nil
          /\ PastBroadcast(id)
          /\ {K_ip, K_mac} \subseteq DOMAIN insts[id].LocalVars

\* C29: in an activation where two instances' run commands refer to each
\* other's ip or mac, no lookup blocks for ever: once every instance has
\* published its identity, with nothing failed, an instance that is inside
\* a lookup is never left without any step the activation could still take.
C29_MutualReferencesTerminate ==
    (/\ Mutual(cluster)
     /\ AllPublished
     /\ \E t \in DOMAIN pc : InLookup(t))
        => ENABLED Next

\* the goroutine of instance id was never started
NeverLaunched(id) == pc[InstT(id[1], id[2])] = "idle"

\* C30: while the process lives, when a node's Stopped flag is set each of
\* its instances has its Stopped flag set or was never launched, and an
\* instance of a stopped node was never launched only if the node's run
\* returned an error, which is then the node's Error.
C30_StoppedNodeHasStoppedInstances ==
    ~panicked =>
        \A id \in DOMAIN insts :
            nodes[id[1]].Stopped =>
                /\ insts[id].Stopped \/ NeverLaunched(id)
                /\ ~(insts[id].Stopped /\ NeverLaunched(id))
                /\ NeverLaunched(id) =>
                       (nodes[id[1]].rv # Nil /\ nodes[id[1]].Error = nodes[id[1]].rv)
                /\ insts[id].Stopped => nodes[id[1]].rv = Nil

\* one node has stopped with an error and its instance never launched;
\* another has stopped after its instance, which failed, had stopped
C30_Witness ==
    \E id, other \in DOMAIN insts :
        /\ nodes[id[1]].Stopped
        /\ NeverLaunched(id)
        /\ nodes[id[1]].Error # Nil
        /\ nodes[other[1]].Stopped
        /\ insts[other].Stopped
        /\ insts[other].Error # Nil
        /\ nodes[other[1]].Error = Nil

\* C31: the name a node hands to LoadImage is the resolved image name it has
\* published in its local scope as "image", and the one its docker argument
\* list ends with.
C31_LoadsResolvedImage ==
    \A n \in DOMAIN nodes :
        li[n].name # <<>> =>
            /\ K_image \in DOMAIN nodes[n].LocalVars
            /\ li[n].name = nodes[n].LocalVars[K_image]
            /\ li[n].name = nodes[n].Image
            /\ Len(nodes[n].DockerArgs) = 5 => nodes[n].DockerArgs[5] = li[n].name

\* an engine option of create: the cidfile option or the volumes-from option
IsOption(arg) ==
    \/ \E f \in {CidFileOf(id) : id \in InstIds(cluster)} : arg = CidFileOpt(f)
    \/ arg = VolumesFromOpt(PriorCid)

\* where the image reference is in the argument sequence
ImageAt(args) ==
    CHOOSE i \in 1..Len(args) : args[i] = cluster[dk.who[1]].Image

\* C32: in the argument sequence of every create that docker.Create issues,
\* every engine option, the volumes-from option included, comes before the
\* image reference.
C32_OptionsBeforeImage ==
    (\E k \in 1..Len(dk.ops) : dk.ops[k][1] = "create") =>
        \A i \in 1..Len(dk.cmdArgs) :
            IsOption(dk.cmdArgs[i]) => i < ImageAt(dk.cmdArgs)

====
